---- MODULE Spec2Model ----
(***************************************************************************)
(* A model of the single-step execution engine of sputnikvm:               *)
(* Machine::step, Machine::step_precompiled, Machine::derive,              *)
(* Machine::commit_account and Machine::commit_blockhash of                *)
(* src/eval/mod.rs, driven by a host that steps, commits facts and         *)
(* derives sub-machines.                                                   *)
(*                                                                         *)
(* The modules eval/mod.rs uses but the source tree does not hold (PC,     *)
(* Stack, Memory, commit, eval::check, eval::cost, eval::run, the Patch)   *)
(* are modelled from the design document, for a small instruction set.     *)
(*                                                                         *)
(* Widths: TLC's integers are 32 bits wide, so a 256-bit word is modelled  *)
(* as a natural below WordModulus and usize as a natural up to UsizeMax,   *)
(* keeping UsizeMax < WordModulus - 1 as on every host the code builds on. *)
(***************************************************************************)
EXTENDS Integers, Sequences, FiniteSets, TLC

(***************************************************************************)
(* Widths                                                                  *)
(***************************************************************************)
WordModulus == 2^20
UsizeMax == 2^16 - 1

Max(a, b) == IF a >= b THEN a ELSE b

(***************************************************************************)
(* Opcodes (the byte values of the instruction set modelled)               *)
(***************************************************************************)
OP_STOP == 0
OP_BALANCE == 49
OP_BLOCKHASH == 64
OP_POP == 80
OP_MSTORE == 82
OP_SLOAD == 84
OP_SSTORE == 85
OP_JUMP == 86
OP_JUMPI == 87
OP_JUMPDEST == 91
OP_PUSH1 == 96
OP_PUSH2 == 97
OP_DUP1 == 128
OP_LOG0 == 160
OP_CREATE == 240
OP_CALL == 241
OP_RETURN == 243
OP_DELEGATECALL == 244
OP_SUICIDE == 255

\* The instruction a byte decodes to; "INVALID" when it is no opcode.
OpName(byte) ==
    CASE byte = OP_STOP -> "STOP"
      [] byte = OP_BALANCE -> "BALANCE"
      [] byte = OP_BLOCKHASH -> "BLOCKHASH"
      [] byte = OP_POP -> "POP"
      [] byte = OP_MSTORE -> "MSTORE"
      [] byte = OP_SLOAD -> "SLOAD"
      [] byte = OP_SSTORE -> "SSTORE"
      [] byte = OP_JUMP -> "JUMP"
      [] byte = OP_JUMPI -> "JUMPI"
      [] byte = OP_JUMPDEST -> "JUMPDEST"
      [] byte = OP_PUSH1 -> "PUSH"
      [] byte = OP_PUSH2 -> "PUSH"
      [] byte = OP_DUP1 -> "DUP"
      [] byte = OP_LOG0 -> "LOG"
      [] byte = OP_CREATE -> "CREATE"
      [] byte = OP_CALL -> "CALL"
      [] byte = OP_RETURN -> "RETURN"
      [] byte = OP_DELEGATECALL -> "DELEGATECALL"
      [] byte = OP_SUICIDE -> "SUICIDE"
      [] OTHER -> "INVALID"

\* Number of immediate bytes that follow the opcode.
ImmediateLen(byte) ==
    IF byte = OP_PUSH1 THEN 1 ELSE IF byte = OP_PUSH2 THEN 2 ELSE 0

(***************************************************************************)
(* Code cursor (PC).  Positions are 0-based as in the code; code is a      *)
(* sequence, so the byte at position p is code[p + 1].                     *)
(***************************************************************************)
ByteAt(code, p) == code[p + 1]

\* PC::is_end
is_end(code, position) == position >= Len(code)

\* The big-endian value of the n immediate bytes after position p.
RECURSIVE ImmediateValue(_, _, _)
ImmediateValue(code, p, n) ==
    IF n = 0 THEN 0
    ELSE ImmediateValue(code, p, n - 1) * 256 + ByteAt(code, p + n)

\* PC::peek: the instruction at the position, or a decode failure.
peek(code, position) ==
    LET byte == ByteAt(code, position)
        n == ImmediateLen(byte)
    IN  IF OpName(byte) = "INVALID"
          THEN [ok |-> FALSE, err |-> "InvalidOpcode", op |-> "INVALID", arg |-> 0, size |-> 1]
        ELSE IF position + n >= Len(code)
          THEN [ok |-> FALSE, err |-> "PCOverflow", op |-> "INVALID", arg |-> 0, size |-> 1]
        ELSE [ok |-> TRUE, err |-> "", op |-> OpName(byte),
              arg |-> ImmediateValue(code, position, n), size |-> 1 + n]

\* The linear pre-scan: the set of positions that start an instruction.
RECURSIVE LiveFrom(_, _)
LiveFrom(code, p) ==
    IF p >= Len(code) THEN {}
    ELSE {p} \cup LiveFrom(code, p + 1 + ImmediateLen(ByteAt(code, p)))

Live(code) == LiveFrom(code, 0)

\* Mutant: any jump-destination marker byte of the code is a target.
is_valid_by_opcode(code, target) ==
    target < Len(code) /\ ByteAt(code, target) = OP_JUMPDEST

\* PC::is_valid
is_valid(code, target) ==
    /\ target < Len(code)
    /\ target \in Live(code)
    /\ ByteAt(code, target) = OP_JUMPDEST

(***************************************************************************)
(* Stack: a bounded LIFO of words, the top at index 1.                     *)
(***************************************************************************)
StackLimit == 1024

\* Stack::peek(i), i counted from the top, 0-based.
StackPeek(stack, i) == stack[i + 1]

\* The stack with its n top words removed.
StackDrop(stack, n) == SubSeq(stack, n + 1, Len(stack))

StackPush(stack, v) == <<v>> \o stack

\* The deepest frame a call or create may be made from.
CallstackLimit == 1024

(***************************************************************************)
(* Memory: a zero-filled byte sequence that grows in 32-byte words.        *)
(***************************************************************************)
WordSize == 32

\* ceil(bytes / 32)
WordsFor(bytes) == (bytes + WordSize - 1) \div WordSize

\* The 32 big-endian bytes of a word (the bytes above the modelled width
\* are zero).
WordByte(v, i) == IF i <= WordSize - 3 THEN 0 ELSE (v \div (256 ^ (WordSize - i))) % 256

\* Memory with length at least `bytes`, rounded up to a whole word.
MemoryGrow(memory, bytes) ==
    IF bytes <= Len(memory) THEN memory
    ELSE [i \in 1..(WordsFor(bytes) * WordSize) |->
              IF i <= Len(memory) THEN memory[i] ELSE 0]

\* Memory::write of a word at a byte offset.
MemoryWrite(memory, offset, v) ==
    LET grown == MemoryGrow(memory, offset + WordSize)
    IN  [i \in 1..Len(grown) |->
            IF i > offset /\ i <= offset + WordSize
              THEN WordByte(v, i - offset) ELSE grown[i]]

\* The bytes [from, from + len) of memory, zero beyond its end.
MemoryRead(memory, from, len) ==
    [i \in 1..len |-> IF from + i <= Len(memory) THEN memory[from + i] ELSE 0]

(***************************************************************************)
(* Commit caches.                                                          *)
(***************************************************************************)
Addresses == {16, 17}
Slots == {0}
BlockNumbers == {9}

UnknownAccount == [known |-> FALSE, exists |-> FALSE, balance |-> 0]
UnknownWord == [known |-> FALSE, committed |-> 0, value |-> 0]

\* AccountState::default / BlockhashState::default
EmptyAccountState ==
    [accounts |-> [a \in Addresses |-> UnknownAccount],
     storage |-> [k \in Addresses \X Slots |-> UnknownWord]]

EmptyBlockhashState == [n \in BlockNumbers |-> UnknownWord]

AccountKnown(account_state, a) ==
    a \in Addresses /\ account_state.accounts[a].known

StorageKnown(account_state, a, i) ==
    <<a, i>> \in Addresses \X Slots /\ account_state.storage[<<a, i>>].known

BlockhashKnown(blockhash_state, n) ==
    n \in BlockNumbers /\ blockhash_state[n].known

\* The account fact an AccountCommitment carries.
CommittedAccount(c) ==
    [known |-> TRUE, exists |-> c.kind = "Full",
     balance |-> IF c.kind = "Full" THEN c.value ELSE 0]

\* Mutant: the last commitment for a key wins.
AccountCommitOverwrite(account_state, c) ==
    [ok |-> TRUE,
     state |-> IF c.kind = "Storage"
                 THEN [account_state EXCEPT !.storage[<<c.address, c.index>>] =
                          [known |-> TRUE, committed |-> c.value, value |-> c.value]]
               ELSE [account_state EXCEPT !.accounts[c.address] = CommittedAccount(c)]]

\* AccountState::commit: a fact for a fresh key is recorded; a fact for a
\* key already committed is accepted only when it agrees with the one
\* recorded, and changes nothing.
AccountCommit(account_state, c) ==
    IF c.kind = "Storage" THEN
        LET k == <<c.address, c.index>>
            cur == account_state.storage[k]
        IN  IF ~cur.known
              THEN [ok |-> TRUE,
                    state |-> [account_state EXCEPT !.storage[k] =
                        [known |-> TRUE, committed |-> c.value, value |-> c.value]]]
            ELSE [ok |-> cur.committed = c.value, state |-> account_state]
    ELSE
        LET cur == account_state.accounts[c.address]
        IN  IF ~cur.known
              THEN [ok |-> TRUE,
                    state |-> [account_state EXCEPT !.accounts[c.address] =
                        CommittedAccount(c)]]
            ELSE [ok |-> cur = CommittedAccount(c), state |-> account_state]

\* BlockhashState::commit
BlockhashCommit(blockhash_state, number, hash) ==
    LET cur == blockhash_state[number]
    IN  IF ~cur.known
          THEN [ok |-> TRUE,
                state |-> [blockhash_state EXCEPT ![number] =
                    [known |-> TRUE, committed |-> hash, value |-> hash]]]
        ELSE [ok |-> cur.committed = hash, state |-> blockhash_state]

(***************************************************************************)
(* Contexts, statuses and results.                                         *)
(***************************************************************************)
NoContext ==
    [address |-> 0, caller |-> 0, value |-> 0, data |-> <<>>, code |-> <<>>,
     gas_limit |-> 0]

Status(tag, cause, context, range) ==
    [tag |-> tag, cause |-> cause, context |-> context, range |-> range]

Running == Status("Running", "", NoContext, <<0, 0>>)
ExitedOk == Status("ExitedOk", "", NoContext, <<0, 0>>)
ExitedErr(cause) == Status("ExitedErr", cause, NoContext, <<0, 0>>)
ExitedNotSupported(cause) == Status("ExitedNotSupported", cause, NoContext, <<0, 0>>)
InvokeCreate(context) == Status("InvokeCreate", "", context, <<0, 0>>)
InvokeCall(context, range) == Status("InvokeCall", "", context, range)

\* What an operation returned to the host.
Ret(kind, what, address, index) ==
    [kind |-> kind, what |-> what, address |-> address, index |-> index]

RetNone == Ret("None", "", 0, 0)
RetOk == Ret("Ok", "", 0, 0)
RetPanic == Ret("Panic", "", 0, 0)
RetCommitError == Ret("CommitError", "", 0, 0)
RequireAccount(a) == Ret("Require", "Account", a, 0)
RequireStorage(a, i) == Ret("Require", "AccountStorage", a, i)
RequireBlockhash(n) == Ret("Require", "Blockhash", 0, n)

\* Control signals of run_opcode.
ControlNone == [tag |-> "None", dest |-> 0, context |-> NoContext, range |-> <<0, 0>>]
ControlStop == [tag |-> "Stop", dest |-> 0, context |-> NoContext, range |-> <<0, 0>>]
ControlJump(dest) == [tag |-> "Jump", dest |-> dest, context |-> NoContext, range |-> <<0, 0>>]
ControlInvokeCreate(context) ==
    [tag |-> "InvokeCreate", dest |-> 0, context |-> context, range |-> <<0, 0>>]
ControlInvokeCall(context, range) ==
    [tag |-> "InvokeCall", dest |-> 0, context |-> context, range |-> range]

(***************************************************************************)
(* Precondition checker (eval::check).  The instruction i is the record    *)
(* peek returns; m is the machine.                                         *)
(***************************************************************************)
\* Words an instruction takes from the stack.
Pops(op) ==
    CASE op \in {"STOP", "JUMPDEST", "PUSH"} -> 0
      [] op \in {"BALANCE", "BLOCKHASH", "POP", "SLOAD", "JUMP", "DUP", "SUICIDE"} -> 1
      [] op \in {"MSTORE", "SSTORE", "JUMPI", "LOG", "RETURN"} -> 2
      [] op = "CREATE" -> 3
      [] op = "DELEGATECALL" -> 6
      [] op = "CALL" -> 7

\* Words an instruction leaves on the stack.
Pushes(op) ==
    CASE op \in {"BALANCE", "BLOCKHASH", "SLOAD", "PUSH"} -> 1
      [] op = "DUP" -> 2
      [] OTHER -> 0

CheckOk == [kind |-> "Ok", err |-> "", ret |-> RetNone, jump |-> FALSE, dest |-> 0]
CheckJump(dest) == [kind |-> "Ok", err |-> "", ret |-> RetNone, jump |-> TRUE, dest |-> dest]
CheckOnChain(err) == [kind |-> "OnChain", err |-> err, ret |-> RetNone, jump |-> FALSE, dest |-> 0]
CheckRequire(ret) == [kind |-> "Require", err |-> "", ret |-> ret, jump |-> FALSE, dest |-> 0]

\* check_opcode: stack depth for the instruction's arity, the facts the
\* instruction reads, and the jump target of a control transfer.
check_opcode(i, m) ==
    LET stack == m.stack
        self == m.context.address
    IN  IF Len(stack) < Pops(i.op) THEN CheckOnChain("StackUnderflow")
        ELSE IF Len(stack) - Pops(i.op) + Pushes(i.op) > StackLimit
          THEN CheckOnChain("StackOverflow")
        ELSE CASE i.op \in {"BALANCE", "SUICIDE"} ->
                    IF AccountKnown(m.account_state, StackPeek(stack, 0)) THEN CheckOk
                    ELSE CheckRequire(RequireAccount(StackPeek(stack, 0)))
               [] i.op = "CALL" ->
                    IF AccountKnown(m.account_state, StackPeek(stack, 1)) THEN CheckOk
                    ELSE CheckRequire(RequireAccount(StackPeek(stack, 1)))
               [] i.op \in {"SLOAD", "SSTORE"} ->
                    IF StorageKnown(m.account_state, self, StackPeek(stack, 0)) THEN CheckOk
                    ELSE CheckRequire(RequireStorage(self, StackPeek(stack, 0)))
               [] i.op = "BLOCKHASH" ->
                    IF BlockhashKnown(m.blockhash_state, StackPeek(stack, 0)) THEN CheckOk
                    ELSE CheckRequire(RequireBlockhash(StackPeek(stack, 0)))
               [] i.op = "MSTORE" ->
                    IF StackPeek(stack, 0) + WordSize >= WordModulus
                      THEN CheckOnChain("InvalidRange") ELSE CheckOk
               [] i.op \in {"LOG", "RETURN"} ->
                    IF StackPeek(stack, 0) + StackPeek(stack, 1) >= WordModulus
                      THEN CheckOnChain("InvalidRange") ELSE CheckOk
               [] i.op = "JUMP" -> CheckJump(StackPeek(stack, 0))
               [] i.op = "JUMPI" ->
                    IF StackPeek(stack, 1) # 0 THEN CheckJump(StackPeek(stack, 0))
                    ELSE CheckOk
               [] OTHER -> CheckOk

\* check_support: the instructions the active rule set does not enable.
check_support(i, m) ==
    IF i.op = "DELEGATECALL" THEN [ok |-> FALSE, err |-> "DelegateCallNotSupported"]
    ELSE [ok |-> TRUE, err |-> ""]

\* extra_check_opcode: a call may not forward more gas than is left after
\* the instruction's own cost.
extra_check_opcode(i, m, stipend, after_gas) ==
    IF i.op = "CALL" /\ after_gas < StackPeek(m.stack, 0)
      THEN [ok |-> FALSE, err |-> "EmptyGas"]
    ELSE [ok |-> TRUE, err |-> ""]

(***************************************************************************)
(* Cost calculator (eval::cost) with the gas table of the rule set.        *)
(***************************************************************************)
\* The cumulative memory cost (in words) after touching [from, from + len).
memory_expand(current, from, len) ==
    IF len = 0 THEN current ELSE Max(current, WordsFor(from + len))

\* memory_cost: the new cumulative memory cost of the frame.
memory_cost(i, m) ==
    LET stack == m.stack
        current == m.memory_cost
    IN  CASE i.op = "MSTORE" -> memory_expand(current, StackPeek(stack, 0), WordSize)
          [] i.op \in {"LOG", "RETURN"} ->
                memory_expand(current, StackPeek(stack, 0), StackPeek(stack, 1))
          [] i.op = "CREATE" ->
                memory_expand(current, StackPeek(stack, 1), StackPeek(stack, 2))
          [] i.op = "CALL" ->
                memory_expand(
                    memory_expand(current, StackPeek(stack, 3), StackPeek(stack, 4)),
                    StackPeek(stack, 5), StackPeek(stack, 6))
          [] OTHER -> current

\* memory_gas: the gas of a cumulative memory cost, linear plus quadratic.
memory_gas(cost) == 3 * cost + (cost * cost) \div 512

\* gas_cost: the instruction's gas, memory excluded.
gas_cost(i, m) ==
    LET stack == m.stack
        self == m.context.address
    IN  CASE i.op \in {"STOP", "RETURN", "SUICIDE"} -> 0
          [] i.op = "JUMPDEST" -> 1
          [] i.op = "POP" -> 2
          [] i.op \in {"PUSH", "DUP", "MSTORE"} -> 3
          [] i.op = "JUMP" -> 8
          [] i.op = "JUMPI" -> 10
          [] i.op \in {"BALANCE", "BLOCKHASH"} -> 20
          [] i.op = "SLOAD" -> 50
          [] i.op = "SSTORE" ->
                IF StackPeek(stack, 1) # 0
                   /\ m.account_state.storage[<<self, StackPeek(stack, 0)>>].value = 0
                  THEN 20000 ELSE 5000
          [] i.op = "LOG" -> 375 + 8 * StackPeek(stack, 1)
          [] i.op = "CREATE" -> 32000
          [] i.op = "CALL" ->
                40 + StackPeek(stack, 0)
                + (IF StackPeek(stack, 2) # 0 THEN 9000 ELSE 0)
                + (IF m.account_state.accounts[StackPeek(stack, 1)].exists THEN 0 ELSE 25000)
          [] i.op = "DELEGATECALL" -> 40 + StackPeek(stack, 0)

\* gas_stipend: the allowance forwarded to a value-transferring call.
gas_stipend(i, m) ==
    IF i.op = "CALL" /\ StackPeek(m.stack, 2) # 0 THEN 2300 ELSE 0

\* gas_refund: the credit of a state-clearing instruction.
gas_refund(i, m) ==
    LET stack == m.stack
        self == m.context.address
    IN  CASE i.op = "SSTORE" ->
                IF StackPeek(stack, 1) = 0
                   /\ m.account_state.storage[<<self, StackPeek(stack, 0)>>].value # 0
                  THEN 15000 ELSE 0
          [] i.op = "SUICIDE" ->
                IF \E k \in 1..Len(m.removed) : m.removed[k] = self THEN 0 ELSE 24000
          [] OTHER -> 0

(***************************************************************************)
(* Opcode executor (eval::run): the effect of one instruction on the       *)
(* state, and its control signal.                                          *)
(***************************************************************************)
Ran(m, control) == [m |-> m, control |-> control]

\* Mutant: calls and creates are made at any depth.
CallstackNeverFull(m) == FALSE

\* Whether the frame is too deep to call or create: the instruction then
\* leaves zero on the stack and no frame is asked for.
CallstackFull(m) == m.depth >= CallstackLimit

run_opcode(i, position, m, stipend, after_gas) ==
    LET stack == m.stack
        self == m.context.address
        rest == StackDrop(stack, Pops(i.op))
        popped == [m EXCEPT !.stack = rest]
    IN  CASE i.op = "STOP" -> Ran(m, ControlStop)
          [] i.op = "JUMPDEST" -> Ran(m, ControlNone)
          [] i.op = "POP" -> Ran(popped, ControlNone)
          [] i.op = "PUSH" -> Ran([m EXCEPT !.stack = StackPush(stack, i.arg)], ControlNone)
          [] i.op = "DUP" ->
                Ran([m EXCEPT !.stack = StackPush(stack, StackPeek(stack, 0))], ControlNone)
          [] i.op = "BALANCE" ->
                Ran([m EXCEPT !.stack = StackPush(rest,
                        m.account_state.accounts[StackPeek(stack, 0)].balance)],
                    ControlNone)
          [] i.op = "BLOCKHASH" ->
                Ran([m EXCEPT !.stack = StackPush(rest,
                        m.blockhash_state[StackPeek(stack, 0)].value)],
                    ControlNone)
          [] i.op = "SLOAD" ->
                Ran([m EXCEPT !.stack = StackPush(rest,
                        m.account_state.storage[<<self, StackPeek(stack, 0)>>].value)],
                    ControlNone)
          [] i.op = "SSTORE" ->
                Ran([popped EXCEPT
                        !.account_state.storage[<<self, StackPeek(stack, 0)>>].value =
                            StackPeek(stack, 1)],
                    ControlNone)
          [] i.op = "MSTORE" ->
                Ran([popped EXCEPT !.memory =
                        MemoryWrite(m.memory, StackPeek(stack, 0), StackPeek(stack, 1))],
                    ControlNone)
          [] i.op = "JUMP" -> Ran(popped, ControlJump(StackPeek(stack, 0)))
          [] i.op = "JUMPI" ->
                Ran(popped, IF StackPeek(stack, 1) # 0
                              THEN ControlJump(StackPeek(stack, 0)) ELSE ControlNone)
          [] i.op = "LOG" ->
                Ran([popped EXCEPT !.logs = Append(m.logs,
                        [address |-> self, topics |-> <<>>,
                         data |-> MemoryRead(m.memory, StackPeek(stack, 0),
                                             StackPeek(stack, 1))])],
                    ControlNone)
          [] i.op = "RETURN" ->
                Ran([popped EXCEPT !.out =
                        MemoryRead(m.memory, StackPeek(stack, 0), StackPeek(stack, 1))],
                    ControlStop)
          [] i.op = "SUICIDE" ->
                Ran([popped EXCEPT !.removed = Append(m.removed, self)], ControlStop)
          [] i.op \in {"CREATE", "CALL"} /\ CallstackFull(m) ->
                Ran([m EXCEPT !.stack = StackPush(rest, 0)], ControlNone)
          [] i.op = "CREATE" /\ ~CallstackFull(m) ->
                Ran(popped,
                    ControlInvokeCreate(
                        [address |-> 0, caller |-> self, value |-> StackPeek(stack, 0),
                         data |-> <<>>,
                         code |-> MemoryRead(m.memory, StackPeek(stack, 1),
                                             StackPeek(stack, 2)),
                         gas_limit |-> after_gas]))
          [] i.op = "CALL" /\ ~CallstackFull(m) ->
                Ran(popped,
                    ControlInvokeCall(
                        [address |-> StackPeek(stack, 1), caller |-> self,
                         value |-> StackPeek(stack, 2),
                         data |-> MemoryRead(m.memory, StackPeek(stack, 3),
                                             StackPeek(stack, 4)),
                         code |-> <<>>,
                         gas_limit |-> StackPeek(stack, 0) + stipend],
                        <<StackPeek(stack, 5), StackPeek(stack, 6)>>))

(***************************************************************************)
(* Precompiled contracts of the rule set: (address, optional exact-code    *)
(* matcher, contract).                                                     *)
(***************************************************************************)
Precompileds ==
    << [address |-> 1, matcher |-> TRUE, code |-> <<>>, contract |-> "ECREC"],
       [address |-> 4, matcher |-> FALSE, code |-> <<>>, contract |-> "ID"] >>

\* Precompiled::gas_and_step: the identity contract copies its input for
\* 15 gas plus 3 per word; signature recovery is not built into this host.
gas_and_step(contract, data, gas_limit) ==
    IF contract = "ID" THEN
        LET gas == 15 + 3 * WordsFor(Len(data))
        IN  IF gas > gas_limit
              THEN [kind |-> "OnChain", err |-> "EmptyGas", gas |-> 0, ret |-> <<>>]
            ELSE [kind |-> "Ok", err |-> "", gas |-> gas, ret |-> data]
    ELSE [kind |-> "NotSupported", err |-> "EcrecNotSupported", gas |-> 0, ret |-> <<>>]

(***************************************************************************)
(* Machine (src/eval/mod.rs).                                              *)
(***************************************************************************)
\* State::memory_gas
state_memory_gas(m) == memory_gas(m.memory_cost)

\* State::available_gas
available_gas(m) == m.context.gas_limit - state_memory_gas(m) - m.used_gas

\* State::total_used_gas
total_used_gas(m) == state_memory_gas(m) + m.used_gas

\* Machine::with_states
with_states(context, block, depth, account_state, blockhash_state) ==
    [code |-> context.code,
     position |-> 0,
     status |-> Running,
     memory |-> <<>>,
     stack |-> <<>>,
     context |-> context,
     block |-> block,
     out |-> <<>>,
     memory_cost |-> 0,
     used_gas |-> 0,
     refunded_gas |-> 0,
     account_state |-> account_state,
     blockhash_state |-> blockhash_state,
     logs |-> <<>>,
     removed |-> <<>>,
     depth |-> depth]

\* Machine::new
new(context, block, depth) ==
    with_states(context, block, depth, EmptyAccountState, EmptyBlockhashState)

\* Mutant: the derived machine starts with the gas figures of its parent.
derive_keeping_gas(m, context) ==
    [with_states(context, m.block, m.depth + 1, m.account_state, m.blockhash_state)
        EXCEPT !.logs = m.logs, !.removed = m.removed,
               !.memory_cost = m.memory_cost, !.used_gas = m.used_gas]

\* Machine::derive
derive(m, context) ==
    [code |-> context.code,
     position |-> 0,
     status |-> Running,
     memory |-> <<>>,
     stack |-> <<>>,
     context |-> context,
     block |-> m.block,
     out |-> <<>>,
     memory_cost |-> 0,
     used_gas |-> 0,
     refunded_gas |-> 0,
     account_state |-> m.account_state,
     blockhash_state |-> m.blockhash_state,
     logs |-> m.logs,
     removed |-> m.removed,
     depth |-> m.depth + 1]

\* Machine::commit_account
commit_account(m, commitment) ==
    LET r == AccountCommit(m.account_state, commitment)
    IN  [m |-> [m EXCEPT !.account_state = r.state],
         ret |-> IF r.ok THEN RetOk ELSE RetCommitError]

\* Machine::commit_blockhash
commit_blockhash(m, number, hash) ==
    LET r == BlockhashCommit(m.blockhash_state, number, hash)
    IN  [m |-> [m EXCEPT !.blockhash_state = r.state],
         ret |-> IF r.ok THEN RetOk ELSE RetCommitError]

\* What step and step_precompiled hand back: the machine and the result.
Outcome(m, ret) == [m |-> m, ret |-> ret]

SetStatus(m, status) == [m EXCEPT !.status = status]

\* Mutant: an entry is the frame's by its address alone.
PrecompiledMatchesAddress(m, k) == m.context.address = Precompileds[k].address

\* Mutant: a contract that succeeds is charged the whole gas limit.
PrecompiledResultAllGas(m, r) ==
    CASE r.kind = "OnChain" ->
            [m EXCEPT !.used_gas = m.context.gas_limit, !.status = ExitedErr(r.err)]
      [] r.kind = "NotSupported" ->
            SetStatus(m, ExitedNotSupported(r.err))
      [] r.kind = "Ok" ->
            [m EXCEPT !.used_gas = m.context.gas_limit, !.out = r.ret, !.status = ExitedOk]

\* Whether precompiled entry k is the frame's: the address, and the exact
\* code when the entry has a matcher.
PrecompiledMatches(m, k) ==
    /\ m.context.address = Precompileds[k].address
    /\ (~Precompileds[k].matcher \/ Precompileds[k].code = m.code)

\* The machine after the precompiled contract has run.
PrecompiledResult(m, r) ==
    CASE r.kind = "OnChain" ->
            [m EXCEPT !.used_gas = m.context.gas_limit, !.status = ExitedErr(r.err)]
      [] r.kind = "NotSupported" ->
            SetStatus(m, ExitedNotSupported(r.err))
      [] r.kind = "Ok" ->
            [m EXCEPT !.used_gas = r.gas, !.out = r.ret, !.status = ExitedOk]

\* Machine::step_precompiled: the first matching entry runs; matched is
\* the function's return value.
step_precompiled(m) ==
    LET hits == {k \in 1..Len(Precompileds) : PrecompiledMatches(m, k)}
    IN  IF hits = {} THEN [matched |-> FALSE, panic |-> FALSE, m |-> m]
        ELSE LET k == CHOOSE h \in hits : \A g \in hits : h <= g
                 r == gas_and_step(Precompileds[k].contract, m.context.data,
                                   m.context.gas_limit)
             IN  IF r.kind = "Ok" /\ ~(r.gas <= m.context.gas_limit)
                   THEN [matched |-> TRUE, panic |-> TRUE, m |-> m]
                 ELSE [matched |-> TRUE, panic |-> FALSE, m |-> PrecompiledResult(m, r)]

\* Mutant: a stopped machine is stepped without complaint.
StepNotRunningSilent(m) == Outcome(m, RetOk)

\* Mutant: stepping a stopped machine marks it as finished.
StepNotRunningFinish(m) == Outcome(SetStatus(m, ExitedOk), RetOk)

\* step on a machine that is not Running: panic!().
StepNotRunning(m) == Outcome(m, RetPanic)

\* Mutant: a machine that reaches the end of its code with no gas left
\* ends as out of gas.
StepEndNeedsGas(m) ==
    Outcome(SetStatus(m, IF available_gas(m) = 0 THEN ExitedErr("EmptyGas") ELSE ExitedOk),
            RetOk)


\* step at the end of the code.
StepEnd(m) == Outcome(SetStatus(m, ExitedOk), RetOk)

\* step when peek fails to decode.
StepDecodeFailed(m, err) == Outcome(SetStatus(m, ExitedErr(err)), RetOk)

\* dest.as_usize(): the low bits of the word.
as_usize(dest) == dest % (UsizeMax + 1)

\* Mutant: the word is cut to the machine's index width before the test.
JumpDestTruncated(m, dest) == is_valid(m.code, as_usize(dest))

\* Mutant: the target is only tested against the length of the code.
JumpDestInBounds(m, dest) == dest <= UsizeMax /\ as_usize(dest) < Len(m.code)

\* The jump target test of step.
JumpDestOk(m, dest) == dest <= UsizeMax /\ is_valid(m.code, as_usize(dest))

\* check_opcode(..).and_then(..): the check, with a jump target resolved
\* against the cursor.
CheckedOpcode(i, m) ==
    LET v == check_opcode(i, m)
    IN  IF v.kind = "Ok" /\ v.jump /\ ~JumpDestOk(m, v.dest)
          THEN CheckOnChain("BadJumpDest")
        ELSE v

\* Mutant: a failed check uses up the gas of the frame.
StepOnChainAllGas(m, err) ==
    Outcome([SetStatus(m, ExitedErr(err)) EXCEPT
                !.used_gas = m.context.gas_limit - state_memory_gas(m)], RetOk)

\* Mutant: an operand is taken off the stack before the check fails.
StepOnChainPopped(m, err) ==
    Outcome([SetStatus(m, ExitedErr(err)) EXCEPT !.stack = StackDrop(m.stack, 1)], RetOk)

\* The check failed on chain.
StepOnChain(m, err) == Outcome(SetStatus(m, ExitedErr(err)), RetOk)

\* Mutant: the memory gas is left out of the total.
AllGasCostNoMemory(m, mem_gas, cost) == m.used_gas + cost

\* Mutant: the stipend is credited before the gas limit is tested.
AllGasCostLessStipend(m, mem_gas, cost) ==
    mem_gas + m.used_gas + cost - gas_stipend(peek(m.code, m.position), m)

\* all_gas_cost
AllGasCost(m, mem_gas, cost) == mem_gas + m.used_gas + cost

\* Whether the gas limit covers the instruction.
GasShort(m, all_gas_cost) == m.context.gas_limit < all_gas_cost

\* Mutant: the instruction is consumed before the gas check fails.
StepEmptyGasConsumed(m) ==
    Outcome([SetStatus(m, ExitedErr("EmptyGas")) EXCEPT
                !.position = m.position + peek(m.code, m.position).size], RetOk)

StepEmptyGas(m) == Outcome(SetStatus(m, ExitedErr("EmptyGas")), RetOk)

\* Mutant: an instruction the rule set does not enable ends the machine as
\* an on-chain failure.
StepNotSupportedAsError(m, err) == Outcome(SetStatus(m, ExitedErr(err)), RetOk)

StepNotSupported(m, err) == Outcome(SetStatus(m, ExitedNotSupported(err)), RetOk)

\* Mutant: a call that cannot afford the gas it forwards is charged the
\* gas that was left.
StepExtraFailedCharged(m, err) ==
    Outcome([SetStatus(m, ExitedErr(err)) EXCEPT
                !.used_gas = m.context.gas_limit - state_memory_gas(m)], RetOk)

StepExtraFailed(m, err) == Outcome(SetStatus(m, ExitedErr(err)), RetOk)

\* Mutant: the instruction's gas is not added to the used gas.
AccountingFree(m, cost, stipend, mem_cost, refund) ==
    [m EXCEPT !.memory_cost = mem_cost,
              !.refunded_gas = m.refunded_gas + refund]

\* Mutant: the growth of the memory cost is stored, not its new total.
AccountingDelta(m, cost, stipend, mem_cost, refund) ==
    [m EXCEPT !.used_gas = m.used_gas + cost - stipend,
              !.memory_cost = mem_cost - m.memory_cost,
              !.refunded_gas = m.refunded_gas + refund]

\* The gas figures after the instruction has run.
Accounting(m, cost, stipend, mem_cost, refund) ==
    [m EXCEPT !.used_gas = m.used_gas + cost - stipend,
              !.memory_cost = mem_cost,
              !.refunded_gas = m.refunded_gas + refund]

\* Mutant: a jump signal leaves the cursor past the instruction.
ApplyControlNoJump(m, control) ==
    CASE control.tag \in {"None", "Jump"} -> m
      [] control.tag = "InvokeCall" ->
            SetStatus(m, InvokeCall(control.context, control.range))
      [] control.tag = "InvokeCreate" ->
            SetStatus(m, InvokeCreate(control.context))
      [] control.tag = "Stop" -> SetStatus(m, ExitedOk)

\* The control signal applied to cursor and status.
ApplyControl(m, control) ==
    CASE control.tag = "None" -> m
      [] control.tag = "Jump" -> [m EXCEPT !.position = as_usize(control.dest)]
      [] control.tag = "InvokeCall" ->
            SetStatus(m, InvokeCall(control.context, control.range))
      [] control.tag = "InvokeCreate" ->
            SetStatus(m, InvokeCreate(control.context))
      [] control.tag = "Stop" -> SetStatus(m, ExitedOk)

\* pc.read(): the cursor moves past the instruction and its immediate.
PcRead(m, i) == [m EXCEPT !.position = m.position + i.size]

\* Mutant: the refund is computed after the instruction has run.
StepExecuteRefundLate(m, i, cost, stipend, mem_cost, refund, after_gas) ==
    LET position == m.position
        result == run_opcode(i, position, PcRead(m, i), stipend, after_gas)
    IN  Outcome(ApplyControl(Accounting(result.m, cost, stipend, mem_cost,
                                        gas_refund(i, [result.m EXCEPT !.stack = m.stack])),
                             result.control),
                RetOk)

\* The instruction is consumed, run, accounted for, and its control
\* signal applied.
StepExecute(m, i, cost, stipend, mem_cost, refund, after_gas) ==
    LET position == m.position
        result == run_opcode(i, position, PcRead(m, i), stipend, after_gas)
    IN  Outcome(ApplyControl(Accounting(result.m, cost, stipend, mem_cost, refund),
                             result.control),
                RetOk)

\* Mutant: the instruction is consumed before the missing fact is reported.
StepRequireConsumed(m, ret) == Outcome([m EXCEPT !.position = m.position + 1], ret)

\* Mutant: the instruction's gas is charged before the missing fact is
\* reported.
StepRequireCharged(m, ret) ==
    Outcome([m EXCEPT !.used_gas =
                m.used_gas + gas_cost(peek(m.code, m.position), m)], ret)

\* Mutant: the instruction runs on the default value of the missing fact.
StepRequireDefault(m, ret) ==
    LET i == peek(m.code, m.position)
    IN  StepExecute(m, i, gas_cost(i, m), 0, memory_cost(i, m), 0, m.context.gas_limit)

\* The check needs a fact that is not committed.
StepRequire(m, ret) == Outcome(m, ret)

\* Mutant: the rule set's support is tested before the gas limit.
StepInstructionSupportFirst(m, i) ==
    LET chk == CheckedOpcode(i, m)
    IN  IF chk.kind = "OnChain" THEN StepOnChain(m, chk.err)
        ELSE IF chk.kind = "Require" THEN StepRequire(m, chk.ret)
        ELSE LET mem_cost == memory_cost(i, m)
                 mem_gas == memory_gas(mem_cost)
                 cost == gas_cost(i, m)
                 stipend == gas_stipend(i, m)
                 refund == gas_refund(i, m)
                 all_gas_cost == AllGasCost(m, mem_gas, cost)
                 support == check_support(i, m)
                 after_gas == m.context.gas_limit - all_gas_cost
                 extra == extra_check_opcode(i, m, stipend, after_gas)
             IN  IF ~support.ok THEN StepNotSupported(m, support.err)
                 ELSE IF GasShort(m, all_gas_cost) THEN StepEmptyGas(m)
                 ELSE IF ~extra.ok THEN StepExtraFailed(m, extra.err)
                 ELSE StepExecute(m, i, cost, stipend, mem_cost, refund, after_gas)

\* The bytecode path of step, from the decoded instruction on.
StepInstruction(m, i) ==
    LET chk == CheckedOpcode(i, m)
    IN  IF chk.kind = "OnChain" THEN StepOnChain(m, chk.err)
        ELSE IF chk.kind = "Require" THEN StepRequire(m, chk.ret)
        ELSE LET mem_cost == memory_cost(i, m)
                 mem_gas == memory_gas(mem_cost)
                 cost == gas_cost(i, m)
                 stipend == gas_stipend(i, m)
                 refund == gas_refund(i, m)
                 all_gas_cost == AllGasCost(m, mem_gas, cost)
                 support == check_support(i, m)
                 after_gas == m.context.gas_limit - all_gas_cost
                 extra == extra_check_opcode(i, m, stipend, after_gas)
             IN  IF GasShort(m, all_gas_cost) THEN StepEmptyGas(m)
                 ELSE IF ~support.ok THEN StepNotSupported(m, support.err)
                 ELSE IF ~extra.ok THEN StepExtraFailed(m, extra.err)
                 ELSE StepExecute(m, i, cost, stipend, mem_cost, refund, after_gas)

\* Machine::step
step(m) ==
    IF m.status.tag # "Running" THEN StepNotRunning(m)
    ELSE LET pre == step_precompiled(m)
         IN  IF pre.matched
               THEN (IF pre.panic THEN Outcome(m, RetPanic) ELSE Outcome(pre.m, RetOk))
             ELSE IF is_end(m.code, m.position) THEN StepEnd(m)
             ELSE LET i == peek(m.code, m.position)
                  IN  IF ~i.ok THEN StepDecodeFailed(m, i.err)
                      ELSE StepInstruction(m, i)

(***************************************************************************)
(* The host: programs, gas limits and facts it draws from.                 *)
(***************************************************************************)
HostAddresses == [self |-> 16, other |-> 17]
Self == HostAddresses.self
Other == HostAddresses.other

ProgBalance == <<OP_PUSH1, Other, OP_BALANCE, OP_STOP>>
ProgBalanceJump == <<OP_PUSH1, Other, OP_BALANCE, OP_JUMP, OP_JUMPDEST, OP_STOP>>
\* A balance that is a valid jump target of ProgBalanceJump, and one that
\* exceeds usize and whose low bits are that target.
SmallBalance == Len(ProgBalanceJump) - 2
BigBalance == UsizeMax + 1 + SmallBalance
ProgStorage == <<OP_PUSH1, 0, OP_SLOAD, OP_PUSH1, 0, OP_SSTORE>>
ProgBlockhash == <<OP_PUSH1, 9, OP_BLOCKHASH, OP_STOP>>
ProgBadJump == <<OP_PUSH1, 1, OP_JUMP>>
ProgJump == <<OP_PUSH1, 4, OP_JUMP, 12, OP_JUMPDEST, OP_STOP>>
ProgJumpInsidePush == <<OP_PUSH1, 4, OP_JUMP, OP_PUSH1, OP_JUMPDEST, OP_STOP>>
ProgJumpHigh == <<OP_PUSH1, 200, OP_JUMP, OP_JUMPDEST>>
ProgJumpiTaken == <<OP_PUSH1, 1, OP_PUSH1, 6, OP_JUMPI, OP_STOP, OP_JUMPDEST>>
ProgJumpiBad == <<OP_PUSH1, 1, OP_PUSH1, 5, OP_JUMPI, OP_STOP, OP_JUMPDEST>>
ProgJumpiNotTaken == <<OP_PUSH1, 0, OP_PUSH1, 5, OP_JUMPI>>
ProgLoop == <<OP_JUMPDEST, OP_PUSH1, 0, OP_JUMP>>
ProgMemory ==
    <<OP_PUSH1, 7, OP_PUSH1, 32, OP_MSTORE, OP_PUSH1, 1, OP_PUSH1, 0, OP_MSTORE,
      OP_PUSH1, 33, OP_PUSH1, 31, OP_RETURN>>
ProgLog == <<OP_PUSH1, 9, OP_PUSH1, 0, OP_MSTORE, OP_PUSH1, 2, OP_PUSH1, 30, OP_LOG0>>
ProgCall ==
    <<OP_PUSH1, 0, OP_DUP1, OP_DUP1, OP_DUP1, OP_PUSH1, 1, OP_PUSH1, Other,
      OP_PUSH1, 10, OP_CALL>>
ProgCallGreedy ==
    <<OP_PUSH1, 0, OP_DUP1, OP_DUP1, OP_DUP1, OP_DUP1, OP_PUSH1, Other,
      OP_PUSH2, 255, 255, OP_CALL>>
ProgCreate == <<OP_PUSH1, 0, OP_DUP1, OP_DUP1, OP_CREATE>>
ProgSuicide == <<OP_PUSH1, Other, OP_SUICIDE>>
ProgDelegate ==
    <<OP_PUSH1, 0, OP_DUP1, OP_DUP1, OP_DUP1, OP_DUP1, OP_DUP1, OP_DELEGATECALL>>
ProgInvalid == <<OP_PUSH1, 0, 12>>
ProgUnderflow == <<OP_PUSH1, 0, OP_MSTORE>>
ProgTruncatedPush == <<OP_JUMPDEST, OP_PUSH2, 1>>

Programs ==
    {<<>>, ProgBalance, ProgBalanceJump, ProgStorage, ProgBlockhash, ProgBadJump,
     ProgJump, ProgJumpInsidePush, ProgJumpHigh, ProgJumpiTaken, ProgJumpiBad,
     ProgJumpiNotTaken, ProgMemory, ProgLog, ProgCall, ProgCallGreedy,
     ProgCreate, ProgSuicide, ProgDelegate, ProgInvalid, ProgUnderflow,
     ProgTruncatedPush}

GasLimits == {5, 100000}

Frame(address, data, code, gas_limit) ==
    [address |-> address, caller |-> 0, value |-> 0, data |-> data, code |-> code,
     gas_limit |-> gas_limit]

\* The frames a run starts from: every program at an ordinary address, and
\* frames at the precompiled addresses.
Contexts ==
    {Frame(Self, <<>>, code, g) : code \in Programs, g \in GasLimits}
    \cup {Frame(Self, <<>>, ProgLoop, 50), Frame(Self, <<>>, ProgMemory, 11),
          Frame(Self, <<>>, ProgMemory, 15),
          Frame(Self, <<>>, ProgCall, 7000), Frame(Self, <<>>, ProgDelegate, 20)}
    \cup {Frame(4, data, <<>>, g) : data \in {<<>>, <<1, 2>>}, g \in {11, 100}}
    \cup {Frame(4, <<1, 2>>, ProgJump, 100)}
    \cup {Frame(1, <<>>, code, 100) : code \in {<<>>, ProgJump}}

Block == [number |-> 10, coinbase |-> 0]

Commitment(kind, address, index, value) ==
    [kind |-> kind, address |-> address, index |-> index, value |-> value]

\* The account facts the host may commit; some contradict each other.
AccountOffers ==
    {Commitment("Full", Other, 0, SmallBalance), Commitment("Full", Other, 0, BigBalance),
     Commitment("Nonexist", Other, 0, 0),
     Commitment("Storage", Self, 0, 0), Commitment("Storage", Self, 0, 9)}

BlockhashOffers == {<<9, 11>>, <<9, 12>>}

\* The context the host derives a sub-machine with when the machine did not
\* ask for one.
HostContext == Frame(Other, <<>>, <<OP_STOP>>, 100)

MaxDerives == 1

(***************************************************************************)
(* State                                                                   *)
(***************************************************************************)
VARIABLES
    machine,   \* the Machine the host drives
    children,  \* the machines derived from it, in order
    eager,     \* replay runs: the Machine that had every fact from the start
    world,     \* replay runs: the facts of the host's database
    shared,    \* the derived machines whose caches are the parent's own, not copies
    ret,       \* what the last operation returned
    op         \* the last operation

vars == <<machine, children, shared, eager, world, ret, op>>

Init ==
    /\ \E context \in Contexts : machine = new(context, Block, 0)
    /\ children = <<>>
    /\ shared = {}
    /\ eager = <<>>
    /\ world = <<>>
    /\ ret = RetNone
    /\ op = "new"

\* The host calls step().
Step ==
    /\ machine' = step(machine).m
    /\ ret' = step(machine).ret
    /\ op' = "step"
    /\ UNCHANGED <<children, shared, eager, world>>

\* The host calls commit_account().
CommitAccount ==
    \E c \in AccountOffers :
        /\ machine' = commit_account(machine, c).m
        /\ ret' = commit_account(machine, c).ret
        /\ op' = "commit_account"
        /\ UNCHANGED <<children, shared, eager, world>>

\* The host calls commit_blockhash().
CommitBlockhash ==
    \E b \in BlockhashOffers :
        /\ machine' = commit_blockhash(machine, b[1], b[2]).m
        /\ ret' = commit_blockhash(machine, b[1], b[2]).ret
        /\ op' = "commit_blockhash"
        /\ UNCHANGED <<children, shared, eager, world>>

\* The host calls derive() on a machine that has stopped, with the context
\* the machine asked for when it stopped for a call or a create.
Derive ==
    /\ Len(children) < MaxDerives
    /\ machine.status.tag # "Running"
    /\ LET context == IF machine.status.tag \in {"InvokeCall", "InvokeCreate"}
                        THEN machine.status.context ELSE HostContext
       IN  children' = Append(children, derive(machine, context))
    /\ ret' = RetOk
    /\ op' = "derive"
    /\ UNCHANGED <<machine, shared, eager, world>>

Next == Step \/ CommitAccount \/ CommitBlockhash \/ Derive

Spec == Init /\ [][Next]_vars

(***************************************************************************)
(* Replay runs: the host answers each Requirement with the fact its        *)
(* database holds, while a second machine that was given every fact of     *)
(* the database at construction takes the same successful steps.           *)
(***************************************************************************)
Worlds ==
    [account : {c \in AccountOffers : c.kind # "Storage"},
     storage : {c \in AccountOffers : c.kind = "Storage"},
     blockhash : BlockhashOffers]

\* The caches holding every fact of a database.
WorldAccountState(w) ==
    AccountCommit(AccountCommit(EmptyAccountState, w.account).state, w.storage).state

WorldBlockhashState(w) ==
    BlockhashCommit(EmptyBlockhashState, w.blockhash[1], w.blockhash[2]).state

InitReplay ==
    /\ \E context \in Contexts, w \in Worlds :
          /\ machine = new(context, Block, 0)
          /\ eager = <<with_states(context, Block, 0, WorldAccountState(w),
                                   WorldBlockhashState(w))>>
          /\ world = w
    /\ children = <<>>
    /\ shared = {}
    /\ ret = RetNone
    /\ op = "new"

\* step() on the lazy machine; when it succeeds the eager machine steps too.
StepReplay ==
    /\ machine.status.tag = "Running"
    /\ machine' = step(machine).m
    /\ ret' = step(machine).ret
    /\ eager' = IF step(machine).ret.kind = "Ok" THEN <<step(eager[1]).m>> ELSE eager
    /\ op' = "step"
    /\ UNCHANGED <<children, shared, world>>

\* The host commits the account fact the last step asked for.
CommitRequestedAccount ==
    /\ op = "step" /\ ret.kind = "Require"
    /\ \E c \in {world.account, world.storage} :
          /\ c.address = ret.address
          /\ (c.kind = "Storage") = (ret.what = "AccountStorage")
          /\ c.kind = "Storage" => c.index = ret.index
          /\ ret.what \in {"Account", "AccountStorage"}
          /\ machine' = commit_account(machine, c).m
          /\ ret' = commit_account(machine, c).ret
    /\ op' = "commit_account"
    /\ UNCHANGED <<children, shared, eager, world>>

\* The host commits the block hash the last step asked for.
CommitRequestedBlockhash ==
    /\ op = "step" /\ ret.kind = "Require" /\ ret.what = "Blockhash"
    /\ world.blockhash[1] = ret.index
    /\ machine' = commit_blockhash(machine, world.blockhash[1], world.blockhash[2]).m
    /\ ret' = commit_blockhash(machine, world.blockhash[1], world.blockhash[2]).ret
    /\ op' = "commit_blockhash"
    /\ UNCHANGED <<children, shared, eager, world>>

NextReplay == StepReplay \/ CommitRequestedAccount \/ CommitRequestedBlockhash

SpecReplay == InitReplay /\ [][NextReplay]_vars

(***************************************************************************)
(* Stack runs: programs that fill the stack to its capacity or take more   *)
(* operands than it holds; no instruction of theirs reads a fact.          *)
(***************************************************************************)
ProgPushLoop == <<OP_JUMPDEST, OP_PUSH1, 0, OP_DUP1, OP_JUMP>>
ProgDupLoop == <<OP_PUSH1, 2, OP_JUMPDEST, OP_DUP1, OP_DUP1, OP_JUMP>>
ProgPop == <<OP_POP>>

StackContexts ==
    {Frame(Self, <<>>, code, 20000) :
        code \in {ProgPushLoop, ProgDupLoop, ProgPop, ProgUnderflow, ProgCall}}

InitStack ==
    /\ \E context \in StackContexts : machine = new(context, Block, 0)
    /\ children = <<>>
    /\ shared = {}
    /\ eager = <<>>
    /\ world = <<>>
    /\ ret = RetNone
    /\ op = "new"

SpecStack == InitStack /\ [][Step]_vars

(***************************************************************************)
(* Code runs: every code sequence over a few bytes, up to a length, is run *)
(* from its first instruction.                                             *)
(***************************************************************************)
CodeBytes == {OP_PUSH1, OP_PUSH2, OP_JUMPDEST, OP_JUMP, OP_JUMPI, 1}

MaxCodeLen == 5

CodeGas == 40

CodeContexts ==
    {Frame(Self, <<>>, code, CodeGas) :
        code \in UNION {[1..n -> CodeBytes] : n \in 0..MaxCodeLen}}

InitCode ==
    /\ \E context \in CodeContexts : machine = new(context, Block, 0)
    /\ children = <<>>
    /\ shared = {}
    /\ eager = <<>>
    /\ world = <<>>
    /\ ret = RetNone
    /\ op = "new"

SpecCode == InitCode /\ [][Step]_vars

(***************************************************************************)
(* Tree runs: the host derives sub-machines at any moment and goes on      *)
(* stepping and committing to the parent and to the derived machines.      *)
(***************************************************************************)
\* What derive hands from the parent to the derived machine.
Caches(m) ==
    [account_state |-> m.account_state, blockhash_state |-> m.blockhash_state,
     logs |-> m.logs, removed |-> m.removed]

WithCaches(m, c) ==
    [m EXCEPT !.account_state = c.account_state,
              !.blockhash_state = c.blockhash_state,
              !.logs = c.logs, !.removed = c.removed]

\* Mutant: the derived machine holds the parent's caches, logs and removed
\* set themselves.
ShareCaches(sh, k) == sh \cup {k}

\* derive hands over clones: the k-th derived machine shares nothing with
\* its parent.
CloneCaches(sh, k) == sh

\* The code the host runs in a derived frame: it writes a storage slot,
\* emits a log and removes the account.
ProgChild ==
    <<OP_PUSH1, 9, OP_PUSH1, 0, OP_SSTORE, OP_PUSH1, 0, OP_DUP1, OP_LOG0,
      OP_PUSH1, Other, OP_SUICIDE>>

TreeContexts ==
    {Frame(Self, <<>>, code, 100000) : code \in {ProgStorage, ProgLog, ProgCall}}

\* The context the host derives with: the one the machine asked for, with
\* the callee's code, or a frame of its own choice.
DeriveContext(m) ==
    IF m.status.tag \in {"InvokeCall", "InvokeCreate"}
      THEN [m.status.context EXCEPT !.code = ProgChild]
    ELSE Frame(Self, <<>>, ProgChild, 100000)

TreeAccountOffers ==
    {Commitment("Full", Other, 0, SmallBalance), Commitment("Storage", Self, 0, 9)}

TreeBlockhashOffers == {<<9, 11>>}

InitTree ==
    /\ \E context \in TreeContexts : machine = new(context, Block, 0)
    /\ children = <<>>
    /\ shared = {}
    /\ eager = <<>>
    /\ world = <<>>
    /\ ret = RetNone
    /\ op = "new"

\* The derived machines after an operation that left the parent as m: one
\* that shares the parent's caches sees them change.
SeenByChildren(m) ==
    [k \in 1..Len(children) |->
        IF k \in shared THEN WithCaches(children[k], Caches(m)) ELSE children[k]]

\* The derived machines after an operation that left the k-th of them as m.
ChildrenAfter(k, m) ==
    [j \in 1..Len(children) |->
        IF j = k THEN m
        ELSE IF k \in shared /\ j \in shared THEN WithCaches(children[j], Caches(m))
        ELSE children[j]]

\* The parent after an operation that left the k-th derived machine as m:
\* when that machine shares the parent's caches, the parent sees them change.
SeenByParent(k, m) ==
    IF k \in shared THEN WithCaches(machine, Caches(m)) ELSE machine

TreeStep ==
    /\ machine.status.tag = "Running"
    /\ machine' = step(machine).m
    /\ children' = SeenByChildren(step(machine).m)
    /\ ret' = step(machine).ret
    /\ op' = "step"
    /\ UNCHANGED <<shared, eager, world>>

TreeCommitAccount ==
    \E c \in TreeAccountOffers :
        /\ machine' = commit_account(machine, c).m
        /\ children' = SeenByChildren(commit_account(machine, c).m)
        /\ ret' = commit_account(machine, c).ret
        /\ op' = "commit_account"
        /\ UNCHANGED <<shared, eager, world>>

TreeCommitBlockhash ==
    \E b \in TreeBlockhashOffers :
        /\ machine' = commit_blockhash(machine, b[1], b[2]).m
        /\ children' = SeenByChildren(commit_blockhash(machine, b[1], b[2]).m)
        /\ ret' = commit_blockhash(machine, b[1], b[2]).ret
        /\ op' = "commit_blockhash"
        /\ UNCHANGED <<shared, eager, world>>

TreeDerive ==
    /\ Len(children) < MaxDerives
    /\ children' = Append(children, derive(machine, DeriveContext(machine)))
    /\ shared' = CloneCaches(shared, Len(children) + 1)
    /\ ret' = RetOk
    /\ op' = "derive"
    /\ UNCHANGED <<machine, eager, world>>

TreeChildStep ==
    \E k \in 1..Len(children) :
        /\ children[k].status.tag = "Running"
        /\ children' = ChildrenAfter(k, step(children[k]).m)
        /\ machine' = SeenByParent(k, step(children[k]).m)
        /\ ret' = step(children[k]).ret
        /\ op' = "child_step"
        /\ UNCHANGED <<shared, eager, world>>

TreeChildCommitAccount ==
    \E k \in 1..Len(children), c \in TreeAccountOffers :
        /\ children' = ChildrenAfter(k, commit_account(children[k], c).m)
        /\ machine' = SeenByParent(k, commit_account(children[k], c).m)
        /\ ret' = commit_account(children[k], c).ret
        /\ op' = "child_commit_account"
        /\ UNCHANGED <<shared, eager, world>>

TreeChildCommitBlockhash ==
    \E k \in 1..Len(children), b \in TreeBlockhashOffers :
        /\ children' = ChildrenAfter(k, commit_blockhash(children[k], b[1], b[2]).m)
        /\ machine' = SeenByParent(k, commit_blockhash(children[k], b[1], b[2]).m)
        /\ ret' = commit_blockhash(children[k], b[1], b[2]).ret
        /\ op' = "child_commit_blockhash"
        /\ UNCHANGED <<shared, eager, world>>

NextTree ==
    \/ TreeStep
    \/ TreeCommitAccount
    \/ TreeCommitBlockhash
    \/ TreeDerive
    \/ TreeChildStep
    \/ TreeChildCommitAccount
    \/ TreeChildCommitBlockhash

SpecTree == InitTree /\ [][NextTree]_vars

(***************************************************************************)
(* Live runs: the host keeps calling step() while the machine is Running   *)
(* and answers every Requirement with the fact of its database.            *)
(***************************************************************************)
\* A loop that runs three times: the conditions of its three jumps are put
\* on the stack first.
ProgCountedLoop ==
    <<OP_PUSH1, 0, OP_PUSH1, 1, OP_PUSH1, 1, OP_JUMPDEST, OP_PUSH1, 6, OP_JUMPI, OP_STOP>>

\* The frames whose loop needs more gas than the frame has.
StarvedLoops ==
    {Frame(Self, <<>>, ProgLoop, 50), Frame(Self, <<>>, ProgLoop, 500),
     Frame(Self, <<>>, ProgCountedLoop, 30), Frame(Self, <<>>, ProgCountedLoop, 50)}

LiveContexts ==
    Contexts \cup StarvedLoops \cup {Frame(Self, <<>>, ProgCountedLoop, 100000)}

\* The databases of live runs: one for each kind of account fact.
LiveWorlds == {w \in Worlds : w.storage.value # 0 /\ w.blockhash = <<9, 11>>}

InitLive ==
    /\ \E context \in LiveContexts, w \in LiveWorlds :
          /\ machine = new(context, Block, 0)
          /\ eager = <<with_states(context, Block, 0, WorldAccountState(w),
                                   WorldBlockhashState(w))>>
          /\ world = w
    /\ children = <<>>
    /\ shared = {}
    /\ ret = RetNone
    /\ op = "new"

SpecLive ==
    /\ InitLive
    /\ [][NextReplay]_vars
    /\ WF_vars(StepReplay)
    /\ WF_vars(CommitRequestedAccount)
    /\ WF_vars(CommitRequestedBlockhash)

(***************************************************************************)
(* Depth runs: a frame calls or creates, the host derives the machine of   *)
(* the frame asked for and runs it, and that frame calls or creates again. *)
(***************************************************************************)
ProgDeepCall ==
    <<OP_PUSH1, 0, OP_DUP1, OP_DUP1, OP_DUP1, OP_DUP1, OP_PUSH1, Other,
      OP_PUSH1, 10, OP_CALL>>

DepthContexts == {Frame(Self, <<>>, code, 100000) : code \in {ProgCreate, ProgDeepCall}}

\* The machine starts at depth 0 and holds the account the calls go to.
InitDepth ==
    /\ \E context \in DepthContexts :
          machine = with_states(context, Block, 0,
                        AccountCommit(EmptyAccountState,
                                      Commitment("Full", Other, 0, SmallBalance)).state,
                        EmptyBlockhashState)
    /\ children = <<>>
    /\ shared = {}
    /\ eager = <<>>
    /\ world = <<>>
    /\ ret = RetNone
    /\ op = "new"

\* The host derives the machine of the frame asked for and goes on with it;
\* the frame runs its caller's code, with gas enough for the chain not to
\* end for lack of it.
Descend ==
    /\ machine.status.tag \in {"InvokeCall", "InvokeCreate"}
    /\ machine' = derive(machine,
                         [machine.status.context EXCEPT
                             !.code = machine.code,
                             !.gas_limit = machine.context.gas_limit])
    /\ ret' = RetOk
    /\ op' = "derive"
    /\ UNCHANGED <<children, shared, eager, world>>

NextDepth == Step \/ Descend

SpecDepth == InitDepth /\ [][NextDepth]_vars

(***************************************************************************)
(* Gas runs: programs whose cost, stipend or refund depends on what the    *)
(* instruction itself changes, at gas limits on both sides of the          *)
(* boundary of the call, and programs that run off their end with and      *)
(* without gas to spare.                                                   *)
(***************************************************************************)
ProgClear == <<OP_PUSH1, 0, OP_PUSH1, 0, OP_SSTORE>>
ProgSet == <<OP_PUSH1, 7, OP_PUSH1, 0, OP_SSTORE>>

GasContexts ==
    {Frame(Self, <<>>, code, 100000) :
        code \in {ProgClear, ProgSet, ProgSuicide, ProgCall, ProgMemory}}
    \cup {Frame(Self, <<>>, ProgCall, g) : g \in {6781, 9070, 9071}}
    \cup {Frame(Self, <<>>, <<>>, 0), Frame(Self, <<>>, ProgJumpiNotTaken, 16),
          Frame(Self, <<>>, ProgJumpiNotTaken, 100000)}

InitGas ==
    /\ \E context \in GasContexts : machine = new(context, Block, 0)
    /\ children = <<>>
    /\ shared = {}
    /\ eager = <<>>
    /\ world = <<>>
    /\ ret = RetNone
    /\ op = "new"

SpecGas == InitGas /\ [][Next]_vars

(***************************************************************************)
(* Properties                                                              *)
(***************************************************************************)
\* The instruction step would decode: the machine is Running, its frame is
\* no precompiled contract's, the cursor is inside the code and the byte
\* there is an opcode.
Decodes(m) ==
    /\ m.status.tag = "Running"
    /\ \A k \in 1..Len(Precompileds) : ~PrecompiledMatches(m, k)
    /\ ~is_end(m.code, m.position)
    /\ peek(m.code, m.position).ok

NextInstruction(m) == peek(m.code, m.position)

\* C1: whenever step() returns a Requirement the whole Machine is as it was
\* before the call and still Running, and a second step() with no commit in
\* between returns the same Requirement and again changes nothing.
C1_RequirementLeavesMachineUnchanged ==
    [][/\ (op' = "step" /\ ret'.kind = "Require") =>
              (machine' = machine /\ machine'.status = Running)
       /\ (op = "step" /\ ret.kind = "Require" /\ op' = "step") =>
              (ret' = ret /\ machine' = machine)]_vars

\* A step past the first instruction returned a Requirement.
C1_Witness ==
    /\ op = "step" /\ ret.kind = "Require"
    /\ machine.position > 0 /\ machine.stack # <<>> /\ machine.used_gas > 0

\* What the design lets a host observe of a run: status, cursor, stack,
\* memory, gas figures, logs, removed accounts and output.
Observable(m) ==
    [status |-> m.status, position |-> m.position, stack |-> m.stack,
     memory |-> m.memory, memory_cost |-> m.memory_cost, used_gas |-> m.used_gas,
     refunded_gas |-> m.refunded_gas, logs |-> m.logs, removed |-> m.removed,
     out |-> m.out]

\* C2: replay determinism: the machine that is given each fact only when a
\* step asks for it is, after every operation, observably equal to the
\* machine that held all facts before its first step.
C2_ReplayDeterminism == Observable(machine) = Observable(eager[1])

\* The lazy machine finished a program that reads a balance, having been
\* given only that fact, and holds the balance the database has.
C2_Witness ==
    /\ machine.code = ProgBalance /\ machine.status = ExitedOk
    /\ world.account.kind = "Full" /\ machine.stack = <<world.account.value>>
    /\ machine.account_state # eager[1].account_state
    /\ machine.used_gas = eager[1].used_gas /\ machine.used_gas > 0

\* C4: step() on a Machine that is not Running panics and touches nothing.
C4_StepOnStoppedMachinePanics ==
    [][(machine.status.tag # "Running" /\ op' = "step") =>
            (ret' = RetPanic /\ machine' = machine)]_vars

\* A machine that stopped for a call was stepped again.
C4_Witness ==
    /\ op = "step" /\ ret = RetPanic /\ machine.status.tag = "InvokeCall"

\* C5: a Machine starts Running, and once its status is not Running no
\* operation (step, commit_account, commit_blockhash, derive) changes it.
C5_StoppedStatusIsAbsorbing ==
    /\ machine.status = Running
    /\ [][machine.status.tag # "Running" => machine'.status = machine.status]_vars

\* A commit was accepted by a machine that ended in an error, after a
\* sub-machine was derived from it.
C5_Witness ==
    /\ machine.status.tag = "ExitedErr" /\ children # <<>>
    /\ op = "commit_account" /\ ret = RetOk

\* The next instruction reads a fact: a balance, a storage slot of the
\* frame's own account, or a block hash.
ReadsFact(m) ==
    /\ Decodes(m)
    /\ NextInstruction(m).op \in {"BALANCE", "SLOAD", "BLOCKHASH"}
    /\ Len(m.stack) >= 1

\* The Requirement that names the fact the next instruction reads.
FactKey(m) ==
    CASE NextInstruction(m).op = "BALANCE" -> RequireAccount(StackPeek(m.stack, 0))
      [] NextInstruction(m).op = "SLOAD" ->
            RequireStorage(m.context.address, StackPeek(m.stack, 0))
      [] NextInstruction(m).op = "BLOCKHASH" -> RequireBlockhash(StackPeek(m.stack, 0))

FactCommitted(m) ==
    CASE NextInstruction(m).op = "BALANCE" ->
            AccountKnown(m.account_state, StackPeek(m.stack, 0))
      [] NextInstruction(m).op = "SLOAD" ->
            StorageKnown(m.account_state, m.context.address, StackPeek(m.stack, 0))
      [] NextInstruction(m).op = "BLOCKHASH" ->
            BlockhashKnown(m.blockhash_state, StackPeek(m.stack, 0))

\* The value the host's database holds for the fact the next instruction
\* reads (an account that does not exist has balance zero).
DatabaseValue(w, m) ==
    CASE NextInstruction(m).op = "BALANCE" ->
            IF w.account.kind = "Full" THEN w.account.value ELSE 0
      [] NextInstruction(m).op = "SLOAD" -> w.storage.value
      [] NextInstruction(m).op = "BLOCKHASH" -> w.blockhash[2]

\* C3: an instruction that reads a fact that is not committed makes step()
\* return the Requirement naming exactly that fact, with the machine
\* unchanged; the host's commit of the fact is accepted and makes the fact
\* known, and the retried step() returns Ok and, where the instruction runs,
\* leaves exactly the committed value on the stack.
C3_UncommittedFactIsRequiredThenRead ==
    [][/\ (op' = "step" /\ ReadsFact(machine)) =>
            IF ~FactCommitted(machine)
              THEN ret' = FactKey(machine) /\ machine' = machine
            ELSE /\ ret' = RetOk
                 /\ machine'.status = Running =>
                        /\ machine'.position = machine.position + 1
                        /\ machine'.stack =
                              StackPush(StackDrop(machine.stack, 1),
                                        DatabaseValue(world, machine))
       /\ (op' \in {"commit_account", "commit_blockhash"}) =>
            (ret' = RetOk /\ (ReadsFact(machine') => FactCommitted(machine')))]_vars

\* A block hash was required, committed and then read onto the stack.
C3_Witness ==
    /\ op = "step" /\ ret = RetOk /\ machine.status = Running
    /\ machine.code = ProgBlockhash /\ machine.position = 3
    /\ machine.blockhash_state[9].known
    /\ machine.stack = <<world.blockhash[2]>>
    /\ machine.account_state = EmptyAccountState

\* The next instruction passes the checker and the gas limit is smaller
\* than the memory gas of the new memory cost + used gas + its gas cost.
OutOfGas(m) ==
    /\ Decodes(m)
    /\ CheckedOpcode(NextInstruction(m), m).kind = "Ok"
    /\ m.context.gas_limit <
          memory_gas(memory_cost(NextInstruction(m), m)) + m.used_gas
          + gas_cost(NextInstruction(m), m)

\* C6: when the gas limit does not cover the instruction, step() returns Ok
\* with status ExitedErr(EmptyGas) and the instruction is not executed:
\* cursor, stack, memory, logs, account state and output are unchanged.
C6_EmptyGasExecutesNothing ==
    [][(op' = "step" /\ OutOfGas(machine)) =>
          /\ ret' = RetOk
          /\ machine'.status = ExitedErr("EmptyGas")
          /\ machine'.position = machine.position
          /\ machine'.stack = machine.stack
          /\ machine'.memory = machine.memory
          /\ machine'.logs = machine.logs
          /\ machine'.account_state = machine.account_state
          /\ machine'.out = machine.out]_vars

\* A store ran out of gas only because of the memory it would grow.
C6_Witness ==
    /\ op = "step" /\ machine.status = ExitedErr("EmptyGas")
    /\ machine.code = ProgMemory /\ machine.position = 4
    /\ machine.stack = <<32, 7>> /\ machine.memory = <<>>
    /\ machine.used_gas + 3 <= machine.context.gas_limit

\* C7: total_used_gas() never exceeds the gas limit, so available_gas()
\* never underflows, for the machine and every machine derived from it.
C7_UsedGasWithinLimit ==
    /\ total_used_gas(machine) <= machine.context.gas_limit
    /\ available_gas(machine) >= 0
    /\ \A k \in 1..Len(children) :
          /\ total_used_gas(children[k]) <= children[k].context.gas_limit
          /\ available_gas(children[k]) >= 0

\* A store used up the gas limit exactly, memory gas included.
C7_Witness ==
    /\ op = "step" /\ ret = RetOk /\ machine.status = Running
    /\ machine.memory_cost > 0 /\ machine.used_gas > 0
    /\ total_used_gas(machine) = machine.context.gas_limit

\* C8: memory_cost starts at zero and no operation decreases it.
C8_MemoryCostNeverDecreases ==
    /\ machine.memory_cost = 0
    /\ [][machine'.memory_cost >= machine.memory_cost]_vars

\* After a store to the second word, a store to the first word ran.
C8_Witness ==
    /\ op = "step" /\ machine.status = Running
    /\ machine.code = ProgMemory /\ machine.position = 10
    /\ machine.memory_cost = 2 /\ Len(machine.memory) = 64

\* The next instruction takes more operands than the stack holds.
StackShort(m) ==
    Decodes(m) /\ Len(m.stack) < Pops(NextInstruction(m).op)

\* The next instruction would leave more than 1024 words on the stack.
StackFull(m) ==
    /\ Decodes(m)
    /\ Len(m.stack) >= Pops(NextInstruction(m).op)
    /\ Len(m.stack) - Pops(NextInstruction(m).op) + Pushes(NextInstruction(m).op) > 1024

\* C9: the stack never holds more than 1024 words; an instruction that
\* would push beyond that ends the machine in ExitedErr(StackOverflow), one
\* that needs more operands than the stack holds in
\* ExitedErr(StackUnderflow), and neither changes the stack.
C9_StackBounded ==
    /\ [](Len(machine.stack) <= 1024)
    /\ [][op' = "step" =>
            /\ StackShort(machine) =>
                  /\ ret' = RetOk
                  /\ machine'.status = ExitedErr("StackUnderflow")
                  /\ machine'.stack = machine.stack
            /\ StackFull(machine) =>
                  /\ ret' = RetOk
                  /\ machine'.status = ExitedErr("StackOverflow")
                  /\ machine'.stack = machine.stack]_vars

\* A push on a full stack ended the machine.
C9_Witness ==
    /\ op = "step" /\ machine.status = ExitedErr("StackOverflow")
    /\ Len(machine.stack) = 1024

\* The next instruction is a jump that is taken.
TakenJump(m) ==
    /\ Decodes(m)
    /\ \/ NextInstruction(m).op = "JUMP" /\ Len(m.stack) >= 1
       \/ /\ NextInstruction(m).op = "JUMPI" /\ Len(m.stack) >= 2
          /\ StackPeek(m.stack, 1) # 0

JumpTarget(m) == StackPeek(m.stack, 0)

\* C10: the code of a frame never changes; a taken jump whose target
\* is_valid() rejects ends the machine in ExitedErr(BadJumpDest) with the
\* cursor not moved; and the cursor only ever moves past the instruction
\* just run or to the target of a taken jump that is_valid() accepts.
C10_CursorMovesOnlyToValidDestinations ==
    [][/\ machine'.code = machine.code
       /\ machine'.context.code = machine.context.code
       /\ (op' = "step" /\ TakenJump(machine)
              /\ ~is_valid(machine.code, JumpTarget(machine))) =>
            /\ ret' = RetOk
            /\ machine'.status = ExitedErr("BadJumpDest")
            /\ machine'.position = machine.position
       /\ machine'.position # machine.position =>
            /\ op' = "step" /\ Decodes(machine)
            /\ \/ machine'.position =
                      machine.position + NextInstruction(machine).size
               \/ /\ TakenJump(machine)
                  /\ machine'.position = JumpTarget(machine)
                  /\ is_valid(machine.code, machine'.position)]_vars

\* A jump to an offset that holds no jump destination ended the machine
\* where it stood.
C10_Witness ==
    /\ op = "step" /\ machine.status = ExitedErr("BadJumpDest")
    /\ machine.code = ProgBadJump /\ machine.position = 2
    /\ machine.stack = <<1>>

\* The offset lies inside the immediate operand of a push instruction of the
\* code.
InsidePush(code, t) ==
    \E p \in 0..(t - 1) :
        p \in Live(code) /\ t <= p + ImmediateLen(ByteAt(code, p))

\* C11: for every code sequence, no offset inside the immediate operand of
\* a push is a valid jump target, whatever byte it holds, and a taken jump
\* to such an offset ends the machine in ExitedErr(BadJumpDest) with the
\* cursor not moved.
C11_PushOperandIsNoJumpTarget ==
    /\ [](\A t \in 0..(Len(machine.code) - 1) :
            InsidePush(machine.code, t) => ~is_valid(machine.code, t))
    /\ [][(/\ op' = "step" /\ TakenJump(machine)
           /\ JumpTarget(machine) < Len(machine.code)
           /\ InsidePush(machine.code, JumpTarget(machine))) =>
              /\ ret' = RetOk
              /\ machine'.status = ExitedErr("BadJumpDest")
              /\ machine'.position = machine.position]_vars

\* A jump to a push operand that holds the jump-destination marker ended
\* the machine.
C11_Witness ==
    /\ op = "step" /\ machine.status = ExitedErr("BadJumpDest")
    /\ ByteAt(machine.code, machine.position) = OP_JUMP
    /\ machine.stack # <<>>
    /\ JumpTarget(machine) < Len(machine.code)
    /\ InsidePush(machine.code, JumpTarget(machine))
    /\ ByteAt(machine.code, JumpTarget(machine)) = OP_JUMPDEST

\* The machine the last derive returned.
Derived == children[Len(children)]

\* C12: derive(context) returns a Machine that is Running at position 0 of
\* the context's code with empty stack, memory and output, zero memory cost,
\* used gas and refunded gas, the parent's depth + 1, the parent's block
\* header, and the parent's account state, blockhash state, logs and removed
\* set as they are at the call.
C12_DeriveReturnsFreshChild ==
    [][op' = "derive" =>
          /\ Len(children') = Len(children) + 1
          /\ Derived'.status = Running
          /\ Derived'.position = 0
          /\ Derived'.context = DeriveContext(machine)
          /\ Derived'.code = DeriveContext(machine).code
          /\ Derived'.stack = <<>>
          /\ Derived'.memory = <<>>
          /\ Derived'.out = <<>>
          /\ Derived'.memory_cost = 0
          /\ Derived'.used_gas = 0
          /\ Derived'.refunded_gas = 0
          /\ Derived'.depth = machine.depth + 1
          /\ Derived'.block = machine.block
          /\ Derived'.account_state = machine.account_state
          /\ Derived'.blockhash_state = machine.blockhash_state
          /\ Derived'.logs = machine.logs
          /\ Derived'.removed = machine.removed]_vars

\* A machine was derived from a parent that had grown its memory, used gas,
\* written a log and been given a fact.
C12_Witness ==
    /\ op = "derive" /\ children # <<>>
    /\ machine.memory # <<>> /\ machine.position > 0
    /\ machine.used_gas > 0 /\ machine.memory_cost > 0
    /\ machine.logs # <<>> /\ Derived.logs = machine.logs
    /\ machine.account_state # EmptyAccountState
    /\ Derived.account_state = machine.account_state
    /\ Derived.used_gas = 0 /\ Derived.depth = 1

\* C13: derive() changes no field of the parent nor of the machines derived
\* earlier; a step or a commit on a derived machine leaves the parent as it
\* was; a step or a commit on the parent leaves every derived machine as it
\* was.
C13_ParentAndChildAreIsolated ==
    [][/\ op' = "derive" =>
            /\ machine' = machine
            /\ \A k \in 1..Len(children) : children'[k] = children[k]
       /\ op' \in {"child_step", "child_commit_account", "child_commit_blockhash"} =>
            machine' = machine
       /\ op' \in {"step", "commit_account", "commit_blockhash"} =>
            children' = children]_vars

\* A derived machine wrote a storage slot, a log and a removal that its
\* parent, which was given a fact after the derivation, does not hold.
C13_Witness ==
    /\ op = "child_step" /\ children # <<>>
    /\ children[1].status = ExitedOk
    /\ children[1].account_state.storage[<<Self, 0>>].value = 9
    /\ children[1].logs # <<>> /\ children[1].removed # <<>>
    /\ machine.logs = <<>> /\ machine.removed = <<>>
    /\ ~machine.account_state.storage[<<Self, 0>>].known
    /\ machine.blockhash_state[9].known /\ ~children[1].blockhash_state[9].known

\* The commitment names a key the cache holds a different fact for.
ContradictsAccount(account_state, c) ==
    IF c.kind = "Storage"
      THEN /\ account_state.storage[<<c.address, c.index>>].known
           /\ account_state.storage[<<c.address, c.index>>].committed # c.value
    ELSE /\ account_state.accounts[c.address].known
         /\ account_state.accounts[c.address] # CommittedAccount(c)

ContradictsBlockhash(blockhash_state, number, hash) ==
    blockhash_state[number].known /\ blockhash_state[number].committed # hash

\* The facts the caches were given by commits.
CommittedFacts(m) ==
    [accounts |-> [a \in Addresses |->
                      IF m.account_state.accounts[a].known
                        THEN <<m.account_state.accounts[a]>> ELSE <<>>],
     storage |-> [k \in Addresses \X Slots |->
                      IF m.account_state.storage[k].known
                        THEN <<m.account_state.storage[k].committed>> ELSE <<>>],
     blockhash |-> [n \in BlockNumbers |->
                      IF m.blockhash_state[n].known
                        THEN <<m.blockhash_state[n].committed>> ELSE <<>>]]

\* C14: a commit of a fact that contradicts the fact already committed for
\* its key returns a CommitError and leaves the whole Machine as it was; a
\* commit changes nothing but the cache it is for; and a fact once committed
\* is never replaced.
C14_ConflictingCommitIsRejected ==
    /\ [](/\ \A c \in AccountOffers :
              ContradictsAccount(machine.account_state, c) =>
                  /\ commit_account(machine, c).ret = RetCommitError
                  /\ commit_account(machine, c).m = machine
          /\ \A b \in BlockhashOffers :
              ContradictsBlockhash(machine.blockhash_state, b[1], b[2]) =>
                  /\ commit_blockhash(machine, b[1], b[2]).ret = RetCommitError
                  /\ commit_blockhash(machine, b[1], b[2]).m = machine)
    /\ [][/\ op' = "commit_account" =>
                /\ ret' \in {RetOk, RetCommitError}
                /\ [machine' EXCEPT !.account_state = machine.account_state] = machine
                /\ ret' = RetCommitError => machine' = machine
          /\ op' = "commit_blockhash" =>
                /\ ret' \in {RetOk, RetCommitError}
                /\ [machine' EXCEPT !.blockhash_state = machine.blockhash_state] = machine
                /\ ret' = RetCommitError => machine' = machine
          /\ \A a \in Addresses :
                CommittedFacts(machine).accounts[a] # <<>> =>
                    CommittedFacts(machine').accounts[a] = CommittedFacts(machine).accounts[a]
          /\ \A k \in Addresses \X Slots :
                CommittedFacts(machine).storage[k] # <<>> =>
                    CommittedFacts(machine').storage[k] = CommittedFacts(machine).storage[k]
          /\ \A n \in BlockNumbers :
                CommittedFacts(machine).blockhash[n] # <<>> =>
                    CommittedFacts(machine').blockhash[n] = CommittedFacts(machine).blockhash[n]
         ]_vars

\* A second balance for an account whose balance the program had already
\* read was refused.
C14_Witness ==
    /\ op = "commit_account" /\ ret = RetCommitError
    /\ machine.code = ProgBalance /\ machine.position = 3
    /\ machine.account_state.accounts[Other].known
    /\ machine.stack = <<machine.account_state.accounts[Other].balance>>

\* C15: when the host keeps stepping and commits every fact asked for, the
\* Machine eventually leaves Running; a loop that needs more gas than the
\* frame has ends in ExitedErr(EmptyGas), and never in ExitedOk.
C15_GasBoundsEveryRun ==
    /\ <>(machine.status.tag # "Running")
    /\ (machine.context \in StarvedLoops) ~> (machine.status = ExitedErr("EmptyGas"))
    /\ [](machine.context \in StarvedLoops =>
            /\ machine.status # ExitedOk
            /\ ByteAt(machine.code, machine.position) # OP_STOP)

\* The counted loop ran out of gas at the jump that would have ended it.
C15_Witness ==
    /\ machine.code = ProgCountedLoop /\ machine.status = ExitedErr("EmptyGas")
    /\ machine.position = 9 /\ machine.stack = <<6, 0>>
    /\ machine.used_gas >= 37

\* A failure of the step a Running machine is about to take, by kind.
NoFailure == [kind |-> "None", cause |-> "", ret |-> RetNone]
OnChainFailure(cause) == [kind |-> "OnChain", cause |-> cause, ret |-> RetNone]
NotSupportedFailure(cause) == [kind |-> "NotSupported", cause |-> cause, ret |-> RetNone]
RequirementFailure(r) == [kind |-> "Require", cause |-> "", ret |-> r]

\* The precompiled entries of the frame: the address is the entry's, and so
\* is the code when the entry has a matcher.
MatchingEntries(m) ==
    {k \in 1..Len(Precompileds) :
        /\ Precompileds[k].address = m.context.address
        /\ Precompileds[k].matcher => Precompileds[k].code = m.code}

\* What the frame's precompiled contract answers.
PrecompiledAnswer(m) ==
    LET k == CHOOSE h \in MatchingEntries(m) : \A g \in MatchingEntries(m) : h <= g
    IN  gas_and_step(Precompileds[k].contract, m.context.data, m.context.gas_limit)

\* The failure the next step of a Running machine meets, if any: of the
\* precompiled contract, of decoding, of the check, of the gas limit, of the
\* rule set's support, of the affordability check.
Failure(m) ==
    IF MatchingEntries(m) # {} THEN
        CASE PrecompiledAnswer(m).kind = "OnChain" -> OnChainFailure(PrecompiledAnswer(m).err)
          [] PrecompiledAnswer(m).kind = "NotSupported" ->
                NotSupportedFailure(PrecompiledAnswer(m).err)
          [] OTHER -> NoFailure
    ELSE IF is_end(m.code, m.position) THEN NoFailure
    ELSE IF ~NextInstruction(m).ok THEN OnChainFailure(NextInstruction(m).err)
    ELSE LET i == NextInstruction(m)
             chk == check_opcode(i, m)
             needed == memory_gas(memory_cost(i, m)) + m.used_gas + gas_cost(i, m)
         IN  IF chk.kind = "OnChain" THEN OnChainFailure(chk.err)
             ELSE IF chk.kind = "Require" THEN RequirementFailure(chk.ret)
             ELSE IF chk.jump /\ ~(chk.dest <= UsizeMax /\ is_valid(m.code, chk.dest))
               THEN OnChainFailure("BadJumpDest")
             ELSE IF m.context.gas_limit < needed THEN OnChainFailure("EmptyGas")
             ELSE IF ~check_support(i, m).ok
               THEN NotSupportedFailure(check_support(i, m).err)
             ELSE IF ~extra_check_opcode(i, m, gas_stipend(i, m),
                                         m.context.gas_limit - needed).ok
               THEN OnChainFailure(
                        extra_check_opcode(i, m, gas_stipend(i, m),
                                           m.context.gas_limit - needed).err)
             ELSE NoFailure

\* C16: step() on a Running machine returns Ok or a Requirement; a
\* Requirement is returned exactly for a missing fact and leaves the status
\* Running; an on-chain failure gives Ok and ExitedErr(cause); a
\* not-supported failure gives Ok and ExitedNotSupported(cause); and a step
\* that meets no failure gives Ok and neither of the two statuses.
C16_FailureKindsAreDisjoint ==
    [][(op' = "step" /\ machine.status = Running) =>
          /\ ret'.kind \in {"Ok", "Require"}
          /\ ret'.kind = "Require" => machine'.status = Running
          /\ machine'.status.tag \in {"ExitedErr", "ExitedNotSupported"} => ret' = RetOk
          /\ Failure(machine).kind = "Require" =>
                (ret' = Failure(machine).ret /\ machine'.status = Running)
          /\ Failure(machine).kind = "OnChain" =>
                (ret' = RetOk /\ machine'.status = ExitedErr(Failure(machine).cause))
          /\ Failure(machine).kind = "NotSupported" =>
                (ret' = RetOk
                 /\ machine'.status = ExitedNotSupported(Failure(machine).cause))
          /\ Failure(machine).kind = "None" =>
                (ret' = RetOk
                 /\ machine'.status.tag \notin {"ExitedErr", "ExitedNotSupported"})]_vars

\* An instruction the rule set does not enable ended the machine as not
\* supported, after its operands were on the stack and its gas was covered.
C16_Witness ==
    /\ op = "step" /\ ret = RetOk
    /\ machine.status = ExitedNotSupported("DelegateCallNotSupported")
    /\ machine.code = ProgDelegate /\ Len(machine.stack) = 6
    /\ machine.used_gas > 0

\* The last step ended a Running machine in ExitedErr.
EndsInError == op' = "step" /\ machine.status = Running /\ machine'.status.tag = "ExitedErr"

\* C17 as stated: whenever a step ends the Machine in ExitedErr(cause), the
\* whole gas of the frame is consumed: afterwards total_used_gas() equals
\* the gas limit and available_gas() is zero, for every cause.
C17_EveryErrorConsumesAllGas ==
    [][EndsInError =>
          /\ total_used_gas(machine') = machine'.context.gas_limit
          /\ available_gas(machine') = 0]_vars

\* C17, amended: an on-chain failure of a precompiled contract sets used_gas
\* to the gas limit, so that nothing is available; an on-chain failure of a
\* bytecode step (decoding, check, jump target, gas limit, affordability)
\* sets the status only: used_gas, memory_cost and refunded_gas keep their
\* values and the gas not yet used stays available.
C17_OnlyPrecompiledErrorConsumesAllGas ==
    [][EndsInError =>
          IF MatchingEntries(machine) # {}
            THEN /\ machine'.used_gas = machine.context.gas_limit
                 /\ total_used_gas(machine') = machine.context.gas_limit
                 /\ available_gas(machine') = 0
          ELSE /\ machine'.used_gas = machine.used_gas
               /\ machine'.memory_cost = machine.memory_cost
               /\ machine'.refunded_gas = machine.refunded_gas
               /\ available_gas(machine') = available_gas(machine)]_vars

\* A jump to a bad target ended the machine with nearly all of its gas
\* still available.
C17_Witness ==
    /\ op = "step" /\ ret = RetOk /\ machine.status = ExitedErr("BadJumpDest")
    /\ machine.code = ProgBadJump
    /\ machine.used_gas = 3 /\ machine.context.gas_limit = 100000
    /\ total_used_gas(machine) < machine.context.gas_limit
    /\ available_gas(machine) = 99997

\* C18: each derive() yields the depth of its parent + 1, a machine at the
\* maximum depth of 1024 never stops for a call or a create, and so no chain
\* of calls and creates from a machine of depth 0 yields a machine deeper
\* than 1024.
C18_DepthBounded ==
    /\ [](machine.depth <= 1024)
    /\ [](machine.status.tag \in {"InvokeCall", "InvokeCreate"} => machine.depth < 1024)
    /\ [][op' = "derive" => machine'.depth = machine.depth + 1]_vars

\* The frame at the maximum depth made its call, which left zero on the
\* stack and asked for no frame.
C18_Witness ==
    /\ op = "step" /\ ret = RetOk /\ machine.depth = 1024
    /\ machine.code = ProgDeepCall /\ machine.position = Len(ProgDeepCall)
    /\ machine.status = Running /\ machine.stack = <<0>>

\* The step is the first of a Running machine whose frame is a precompiled
\* contract's.
PrecompiledStep ==
    op' = "step" /\ machine.status = Running /\ MatchingEntries(machine) # {}

\* C19: when the frame's address is a precompiled entry's (and its code the
\* entry's, when the entry has a matcher), one step() finishes the Machine:
\* it returns Ok, the status is ExitedOk, ExitedErr or ExitedNotSupported,
\* and code, cursor, stack and memory are untouched. When no entry matches,
\* step_precompiled() returns false and leaves the Machine unchanged.
C19_PrecompiledFinishesInOneStep ==
    /\ []((machine.status = Running /\ MatchingEntries(machine) = {}) =>
            /\ ~step_precompiled(machine).matched
            /\ step_precompiled(machine).m = machine)
    /\ [][PrecompiledStep =>
            /\ ret' = RetOk
            /\ machine'.status.tag \in {"ExitedOk", "ExitedErr", "ExitedNotSupported"}
            /\ machine'.code = machine.code
            /\ machine'.position = machine.position
            /\ machine'.stack = machine.stack
            /\ machine'.memory = machine.memory]_vars

\* A frame at a precompiled address that carries bytecode was finished by
\* the contract; none of its bytecode ran.
C19_Witness ==
    /\ op = "step" /\ ret = RetOk /\ machine.status = ExitedOk
    /\ MatchingEntries(machine) # {}
    /\ machine.code = ProgJump /\ machine.position = 0 /\ machine.stack = <<>>

\* C20: a precompiled contract that succeeds with (gas, output) leaves
\* used_gas = gas, at most the gas limit, out = output and status ExitedOk;
\* one that fails on chain leaves used_gas = the gas limit, status
\* ExitedErr(cause) and out as it was; one that is not supported leaves
\* status ExitedNotSupported(cause) and used_gas and out as they were.
C20_PrecompiledAccounting ==
    [][PrecompiledStep =>
          CASE PrecompiledAnswer(machine).kind = "Ok" ->
                  /\ machine'.used_gas = PrecompiledAnswer(machine).gas
                  /\ machine'.used_gas <= machine.context.gas_limit
                  /\ machine'.out = PrecompiledAnswer(machine).ret
                  /\ machine'.status = ExitedOk
            [] PrecompiledAnswer(machine).kind = "OnChain" ->
                  /\ machine'.used_gas = machine.context.gas_limit
                  /\ machine'.out = machine.out
                  /\ machine'.status = ExitedErr(PrecompiledAnswer(machine).err)
            [] PrecompiledAnswer(machine).kind = "NotSupported" ->
                  /\ machine'.used_gas = machine.used_gas
                  /\ machine'.out = machine.out
                  /\ machine'.status = ExitedNotSupported(PrecompiledAnswer(machine).err)]_vars

\* The identity contract copied two bytes of input for 18 of 100 gas.
C20_Witness ==
    /\ op = "step" /\ ret = RetOk /\ machine.status = ExitedOk
    /\ machine.context.address = 4 /\ machine.context.data = <<1, 2>>
    /\ machine.code = <<>>
    /\ machine.out = <<1, 2>> /\ machine.used_gas = 18
    /\ machine.context.gas_limit = 100

\* The step is one of a Running machine whose frame is no precompiled
\* contract's: it goes down the bytecode path.
BytecodeStep == op' = "step" /\ machine.status = Running /\ MatchingEntries(machine) = {}

\* The conditions the bytecode path tests, each on its own.
CodeExhausted(m) == m.position >= Len(m.code)
Undecodable(m) == ~CodeExhausted(m) /\ ~NextInstruction(m).ok
Decodable(m) == ~CodeExhausted(m) /\ NextInstruction(m).ok
CheckerFails(m) ==
    \/ check_opcode(NextInstruction(m), m).kind # "Ok"
    \/ /\ check_opcode(NextInstruction(m), m).jump
       /\ ~(/\ check_opcode(NextInstruction(m), m).dest <= UsizeMax
            /\ is_valid(m.code, check_opcode(NextInstruction(m), m).dest))
GasNeeded(m) ==
    memory_gas(memory_cost(NextInstruction(m), m)) + m.used_gas
    + gas_cost(NextInstruction(m), m)
Unaffordable(m) == m.context.gas_limit < GasNeeded(m)
NotEnabled(m) == ~check_support(NextInstruction(m), m).ok
ExtraCheck(m) ==
    extra_check_opcode(NextInstruction(m), m, gas_stipend(NextInstruction(m), m),
                       m.context.gas_limit - GasNeeded(m))

\* The instruction was consumed and run: the step returned Ok, the cursor
\* left the instruction, and the status is none of the two failures.
Executed ==
    /\ ret' = RetOk
    /\ machine'.position # machine.position
    /\ machine'.status.tag \in {"Running", "ExitedOk", "InvokeCreate", "InvokeCall"}

\* C21: on the bytecode path step() decides by the first condition that
\* applies, in this order: code exhausted -> ExitedOk; no decodable
\* instruction -> ExitedErr; the checker fails -> its outcome (ExitedErr,
\* a Requirement, or ExitedErr(BadJumpDest)); the gas limit is too small ->
\* ExitedErr(EmptyGas); the instruction is not enabled ->
\* ExitedNotSupported; the affordability check fails -> ExitedErr;
\* otherwise the instruction executes.  Whatever a later condition would
\* say does not matter.
C21_FirstFailingCheckDecides ==
    [][BytecodeStep =>
          /\ CodeExhausted(machine) => (ret' = RetOk /\ machine'.status = ExitedOk)
          /\ Undecodable(machine) =>
                (ret' = RetOk /\ machine'.status = ExitedErr(NextInstruction(machine).err))
          /\ (Decodable(machine) /\ CheckerFails(machine)) =>
                CASE check_opcode(NextInstruction(machine), machine).kind = "OnChain" ->
                        /\ ret' = RetOk
                        /\ machine'.status =
                              ExitedErr(check_opcode(NextInstruction(machine), machine).err)
                  [] check_opcode(NextInstruction(machine), machine).kind = "Require" ->
                        /\ ret' = check_opcode(NextInstruction(machine), machine).ret
                        /\ machine'.status = Running
                  [] OTHER ->
                        /\ ret' = RetOk
                        /\ machine'.status = ExitedErr("BadJumpDest")
          /\ (Decodable(machine) /\ ~CheckerFails(machine) /\ Unaffordable(machine)) =>
                (ret' = RetOk /\ machine'.status = ExitedErr("EmptyGas"))
          /\ (Decodable(machine) /\ ~CheckerFails(machine) /\ ~Unaffordable(machine)
              /\ NotEnabled(machine)) =>
                /\ ret' = RetOk
                /\ machine'.status =
                      ExitedNotSupported(check_support(NextInstruction(machine), machine).err)
          /\ (Decodable(machine) /\ ~CheckerFails(machine) /\ ~Unaffordable(machine)
              /\ ~NotEnabled(machine) /\ ~ExtraCheck(machine).ok) =>
                (ret' = RetOk /\ machine'.status = ExitedErr(ExtraCheck(machine).err))
          /\ (Decodable(machine) /\ ~CheckerFails(machine) /\ ~Unaffordable(machine)
              /\ ~NotEnabled(machine) /\ ExtraCheck(machine).ok) => Executed]_vars

\* An instruction that the gas limit does not cover and that the rule set
\* does not enable ended the machine in ExitedErr(EmptyGas).
C21_Witness ==
    /\ op = "step" /\ ret = RetOk /\ machine.status = ExitedErr("EmptyGas")
    /\ machine.code = ProgDelegate /\ Len(machine.stack) = 6
    /\ NotEnabled(machine) /\ Unaffordable(machine) /\ ~CheckerFails(machine)

\* A jump to a bad target that the gas limit does not cover either ended
\* the machine in ExitedErr(BadJumpDest).
C21_CheckerBeforeGas ==
    /\ op = "step" /\ ret = RetOk /\ machine.status = ExitedErr("BadJumpDest")
    /\ CheckerFails(machine) /\ Unaffordable(machine)

\* The next step of the machine executes its instruction: the frame is no
\* precompiled contract's and none of the checks fails.
Executes(m) ==
    /\ m.status = Running /\ MatchingEntries(m) = {}
    /\ Decodable(m) /\ ~CheckerFails(m) /\ ~Unaffordable(m)
    /\ ~NotEnabled(m) /\ ExtraCheck(m).ok

\* C22: a step that executes an instruction leaves used_gas = used_gas +
\* gas_cost - gas_stipend, memory_cost = the memory cost of the instruction
\* and refunded_gas = refunded_gas + gas_refund, all four computed on the
\* state before the instruction ran; refunded_gas never decreases.
C22_AccountingUsesValuesBeforeExecution ==
    /\ [][(op' = "step" /\ Executes(machine)) =>
            /\ machine'.used_gas =
                  machine.used_gas + gas_cost(NextInstruction(machine), machine)
                  - gas_stipend(NextInstruction(machine), machine)
            /\ machine'.memory_cost = memory_cost(NextInstruction(machine), machine)
            /\ machine'.refunded_gas =
                  machine.refunded_gas + gas_refund(NextInstruction(machine), machine)]_vars
    /\ [][machine'.refunded_gas >= machine.refunded_gas]_vars

\* A store that cleared a slot holding 9 was refunded for it, and charged
\* the price of a store to a slot in use.
C22_Witness ==
    /\ op = "step" /\ ret = RetOk
    /\ machine.code = ProgClear /\ machine.position = Len(ProgClear)
    /\ machine.account_state.storage[<<Self, 0>>].value = 0
    /\ machine.refunded_gas = 15000 /\ machine.used_gas = 5006

\* The gas limit covers the next instruction only if its stipend is
\* credited.
CoveredOnlyWithStipend(m) ==
    /\ m.status = Running /\ MatchingEntries(m) = {}
    /\ Decodable(m) /\ ~CheckerFails(m)
    /\ m.context.gas_limit < GasNeeded(m)
    /\ m.context.gas_limit >= GasNeeded(m) - gas_stipend(NextInstruction(m), m)

\* C23: the gas limit is tested against memory gas + used_gas + gas_cost
\* with the stipend not credited: an instruction that only the stipend
\* would make affordable ends the machine in ExitedErr(EmptyGas) with the
\* gas figures as they were; and whenever a step did credit a stipend, the
\* gas limit covered the full cost and the instruction had executed.
C23_GasCheckDoesNotCreditStipend ==
    /\ [][(op' = "step" /\ CoveredOnlyWithStipend(machine)) =>
            /\ ret' = RetOk
            /\ machine'.status = ExitedErr("EmptyGas")
            /\ machine'.used_gas = machine.used_gas
            /\ machine'.position = machine.position
            /\ machine'.stack = machine.stack]_vars
    /\ [][(/\ op' = "step" /\ machine.status = Running /\ MatchingEntries(machine) = {}
           /\ Decodable(machine)
           /\ gas_stipend(NextInstruction(machine), machine) > 0
           /\ machine' # machine
           /\ machine'.status # ExitedErr("EmptyGas")) =>
            /\ machine.context.gas_limit >= GasNeeded(machine)
            /\ machine'.position = machine.position + NextInstruction(machine).size
            /\ machine'.used_gas =
                  machine.used_gas + gas_cost(NextInstruction(machine), machine)
                  - gas_stipend(NextInstruction(machine), machine)]_vars

\* A call with value was refused at a gas limit one short of its full
\* cost, well above what it would have used once the stipend was credited.
C23_Witness ==
    /\ op = "step" /\ ret = RetOk /\ machine.status = ExitedErr("EmptyGas")
    /\ machine.code = ProgCall /\ Len(machine.stack) = 7
    /\ machine.context.gas_limit = 9070 /\ GasNeeded(machine) = 9071
    /\ gas_stipend(NextInstruction(machine), machine) = 2300
    /\ machine.used_gas = 21

\* The control signal the executor gives for the next instruction of a
\* machine that is about to execute it.
Signal(m) ==
    run_opcode(NextInstruction(m), m.position,
               [m EXCEPT !.position = m.position + NextInstruction(m).size],
               gas_stipend(NextInstruction(m), m),
               m.context.gas_limit - GasNeeded(m)).control

\* C24: after an instruction has executed its control signal determines
\* cursor and status: none -> Running, cursor just past the instruction
\* and its immediate bytes; Jump(dest) -> Running, cursor at dest; Stop ->
\* ExitedOk; InvokeCreate(ctx) -> status InvokeCreate(ctx);
\* InvokeCall(ctx, range) -> status InvokeCall(ctx, range).
C24_ControlSignalDeterminesCursorAndStatus ==
    [][(op' = "step" /\ Executes(machine)) =>
          /\ ret' = RetOk
          /\ CASE Signal(machine).tag = "None" ->
                    /\ machine'.status = Running
                    /\ machine'.position =
                          machine.position + 1
                          + ImmediateLen(ByteAt(machine.code, machine.position))
               [] Signal(machine).tag = "Jump" ->
                    /\ machine'.status = Running
                    /\ machine'.position = Signal(machine).dest
               [] Signal(machine).tag = "Stop" -> machine'.status = ExitedOk
               [] Signal(machine).tag = "InvokeCreate" ->
                    /\ machine'.status.tag = "InvokeCreate"
                    /\ machine'.status.context = Signal(machine).context
               [] Signal(machine).tag = "InvokeCall" ->
                    /\ machine'.status.tag = "InvokeCall"
                    /\ machine'.status.context = Signal(machine).context
                    /\ machine'.status.range = Signal(machine).range]_vars

\* A conditional jump whose condition held moved the cursor to its target,
\* not past the instruction, and the machine runs on.
C24_Witness ==
    /\ op = "step" /\ ret = RetOk /\ machine.status = Running
    /\ machine.code = ProgJumpiTaken /\ machine.position = 6
    /\ machine.stack = <<>> /\ machine.used_gas = 16

\* A call stopped the machine with the context and the output range of
\* its signal.
C24_CallWitness ==
    /\ op = "step" /\ ret = RetOk /\ machine.status.tag = "InvokeCall"
    /\ machine.status.context.address = Other
    /\ machine.status.range = <<0, 0>>

\* The next instruction transfers control to a word larger than the
\* largest index of the machine.
JumpsBeyondUsize(m) ==
    /\ m.status = Running /\ MatchingEntries(m) = {} /\ Decodable(m)
    /\ check_opcode(NextInstruction(m), m).kind = "Ok"
    /\ check_opcode(NextInstruction(m), m).jump
    /\ check_opcode(NextInstruction(m), m).dest > UsizeMax

\* C25: a jump whose target word exceeds usize::max_value() ends the
\* machine in ExitedErr(BadJumpDest) with the cursor where it was; the word
\* is not cut down to its low bits first, even when those are the offset of
\* a valid jump destination.
C25_TargetBeyondUsizeIsRejected ==
    [][(op' = "step" /\ JumpsBeyondUsize(machine)) =>
          /\ ret' = RetOk
          /\ machine'.status = ExitedErr("BadJumpDest")
          /\ machine'.position = machine.position
          /\ machine'.stack = machine.stack]_vars

\* A jump to a word whose low bits are the offset of a jump destination
\* was refused.
C25_Witness ==
    /\ op = "step" /\ ret = RetOk /\ machine.status = ExitedErr("BadJumpDest")
    /\ machine.code = ProgBalanceJump /\ machine.position = 3
    /\ machine.stack = <<BigBalance>>
    /\ BigBalance > UsizeMax
    /\ ByteAt(machine.code, BigBalance % (UsizeMax + 1)) = OP_JUMPDEST
    /\ is_valid(machine.code, BigBalance % (UsizeMax + 1))

\* C26: whenever the bytecode path of step() ends the machine in ExitedErr
\* or ExitedNotSupported, the status is all that changed: cursor, stack,
\* memory, out, used_gas, memory_cost, refunded_gas, the account and
\* blockhash caches, logs and the removed list are what they were.
C26_FailureChangesOnlyTheStatus ==
    [][(BytecodeStep /\ machine'.status.tag \in {"ExitedErr", "ExitedNotSupported"}) =>
          /\ machine'.position = machine.position
          /\ machine'.stack = machine.stack
          /\ machine'.memory = machine.memory
          /\ machine'.out = machine.out
          /\ machine'.used_gas = machine.used_gas
          /\ machine'.memory_cost = machine.memory_cost
          /\ machine'.refunded_gas = machine.refunded_gas
          /\ machine'.account_state = machine.account_state
          /\ machine'.blockhash_state = machine.blockhash_state
          /\ machine'.logs = machine.logs
          /\ machine'.removed = machine.removed
          /\ machine' = [machine EXCEPT !.status = machine'.status]]_vars

\* A call that forwards more gas than is left failed the affordability
\* check after the gas limit had covered it: its seven operands are on the
\* stack, the cursor is on the call and only the pushes are charged.
C26_Witness ==
    /\ op = "step" /\ ret = RetOk /\ machine.status = ExitedErr("EmptyGas")
    /\ machine.code = ProgCallGreedy /\ machine.position = Len(ProgCallGreedy) - 1
    /\ Len(machine.stack) = 7 /\ machine.used_gas = 21
    /\ machine.context.gas_limit = 100000
    /\ AccountKnown(machine.account_state, Other)

\* C27: when the cursor of a frame that is no precompiled contract's is at
\* the end of the code (an empty program, or a program whose last
\* instruction ran without a Stop), step() returns Ok and sets ExitedOk,
\* whatever gas is left, and stack, memory, out and the gas figures are
\* what they were.
C27_EndOfCodeExitsOk ==
    [][(BytecodeStep /\ machine.position >= Len(machine.code)) =>
          /\ ret' = RetOk
          /\ machine'.status = ExitedOk
          /\ machine'.position = machine.position
          /\ machine'.stack = machine.stack
          /\ machine'.memory = machine.memory
          /\ machine'.out = machine.out
          /\ machine'.used_gas = machine.used_gas
          /\ machine'.memory_cost = machine.memory_cost
          /\ machine'.refunded_gas = machine.refunded_gas]_vars

\* A program ending in a conditional jump that was not taken used up its
\* gas limit exactly, and the next step ended it in ExitedOk.
C27_Witness ==
    /\ op = "step" /\ ret = RetOk /\ machine.status = ExitedOk
    /\ machine.code = ProgJumpiNotTaken /\ machine.position = Len(ProgJumpiNotTaken)
    /\ machine.stack = <<>>
    /\ machine.used_gas = 16 /\ machine.context.gas_limit = 16
    /\ available_gas(machine) = 0

\* An empty program with no gas at all ended in ExitedOk.
C27_EmptyProgram ==
    /\ op = "step" /\ ret = RetOk /\ machine.status = ExitedOk
    /\ machine.code = <<>> /\ machine.context.gas_limit = 0

====
